---- MODULE Spec2Model ----
(***************************************************************************)
(* Verification model of the Pregel step loop.                             *)
(*                                                                         *)
(*  SpecLocal : the local engine, permchain Pregel._transform with         *)
(*              _apply_writes, _prepare_next_tasks, _interrupt_or_proceed  *)
(*              and _read_channel (src/permchain/pregel/__init__.py).      *)
(*  SpecLoop  : the checkpointed step loop, PregelLoop                     *)
(*              (src/libs/langgraph/langgraph/pregel/loop.py).             *)
(***************************************************************************)
EXTENDS Integers, Sequences, FiniteSets, TLC

(***************************************************************************)
(* Bounds of the model.                                                    *)
(***************************************************************************)
\* the tasks of one step of the local engine send at most MaxPending writes
MaxPending == 2
\* checkpoint_pending_writes of the step loop holds at most MaxLoopPending
\* entries (the writes of a step's tasks and their replays)
MaxLoopPending == 4
\* a thread is invoked at most MaxRuns times
MaxRuns == 2
\* batch_max_n: the executor's consumer hands over at most BatchMaxN messages
BatchMaxN == 2
\* a graph without a checkpointer is invoked at most MaxInvocations times
MaxInvocations == 2
\* the number of processes of the linear pipeline
PipeLen == 3
\* the tasks of the step whose end is examined for every list of writes
\* have sent at most MaxWrites writes
MaxWrites == 3
\* the versions passed to get_new_channel_versions are 0..MaxVersion
MaxVersion == 2

(***************************************************************************)
(* State of the local engine.                                              *)
(***************************************************************************)
VARIABLES
    lpc,        \* position of _transform: init, prepare, running, done, error
    limit,      \* config["recursion_limit"]
    step,       \* the loop variable of `for step in range(recursion_limit)`
    chanVal,    \* the live channels: name -> stored value (a sequence)
    versions,   \* checkpoint["versions"]
    seen,       \* checkpoint["seen"]
    tasks,      \* next_tasks: names of the scheduled processes, in order
    taskInput,  \* the input value handed to each scheduled process
    tpc,        \* state of each task's future
    nsent,      \* number of send calls each task has made in this step
    pending,    \* the deque of (channel, value) writes handed to _apply_writes:
                \* the input's writes, then pending_writes of each step
    outputs,    \* the values yielded so far
    err,        \* the error raised out of _transform, <<"none">> if none
    startVal,   \* history: chanVal when the current step's tasks were prepared
    startVers,  \* history: versions when the current step's tasks were prepared
    startSeen,  \* history: seen before the current step's tasks were prepared
    lastRead,   \* history: the latest read a task made through CONFIG_KEY_READ
    ctxSetup,   \* number of times the ContextManager channel was entered
    ctxCleanup  \* number of times the ContextManager channel was exited

tvars == <<lpc, limit, step, chanVal, versions, seen, tasks, taskInput,
           tpc, nsent, pending, outputs, err, startVal, startVers, startSeen,
           lastRead, ctxSetup, ctxCleanup>>

(***************************************************************************)
(* State of several invocations of one graph that has no checkpointer,     *)
(* each followed step by step.                                             *)
(***************************************************************************)
VARIABLES
    minv,       \* per invocation: pc, input, recursion limit, the versions
                \* and seen of its checkpoint, its step, the outputs yielded
    mstore      \* the channel objects: those of the graph (0) and those
                \* made for each invocation

mvars == <<minv, mstore>>

lvars == <<tvars, mvars>>

(***************************************************************************)
(* State of the checkpointed step loop (PregelLoop) and its checkpointer.  *)
(***************************************************************************)
VARIABLES
    linput,          \* self.input: "some", "none", or "done" for INPUT_DONE
    status,          \* self.status
    lstep,           \* self.step
    cvers,           \* self.checkpoint["channel_versions"]
    cseen,           \* self.checkpoint["versions_seen"]
    channels,        \* self.channels: name -> stored value
    ltasks,          \* self.tasks: records id, name, writes
    cpw,             \* self.checkpoint_pending_writes: (task_id, channel, value)
    stream,          \* self.stream
    saved,           \* the checkpointer: last checkpoint put, its step, its writes
    recursionLimit,  \* self.config["recursion_limit"]
    interruptBefore, \* the interrupt_before argument of tick
    interruptAfter,  \* the interrupt_after argument of tick
    prog,            \* which program the nodes run: "chain" or "cycle"
    runs,            \* number of invocations of the thread so far
    ret,             \* what the last call of tick returned or raised
    applied,         \* history: the writes list of the last apply_writes of tick
    handed,          \* history: number of ticks of this loop that returned True
    cause,           \* history: the processes whose tasks were prepared when
                     \* the thread last stopped with interrupt_before
    lastStop         \* history: the status the previous loop on the thread
                     \* had when this invocation was made

gvars == <<linput, status, lstep, cvers, cseen, channels, ltasks, cpw, stream,
           saved, recursionLimit, interruptBefore, interruptAfter, prog, runs,
           ret, applied, handed, cause, lastStop>>

(***************************************************************************)
(* State of the distributed mode: the two topics of the bus, the executor  *)
(* worker (KafkaExecutor) and the orchestrator worker.  The orchestrator's *)
(* step loop and the checkpointer are the variables of PregelLoop above.   *)
(***************************************************************************)
VARIABLES
    execTopic,   \* the executor topic: every MessageToExecutor produced
    fetchPos,    \* the offset the executor's consumer fetches next
    commitPos,   \* the offset the executor's group has committed
    batch,       \* the offsets of the batch __anext__ is processing
    mstate,      \* per message of the executor topic: where each() is
    epc,         \* the executor worker: idle, gather, raised
    orchTopic,   \* the orchestrator topic: the messages not yet consumed
    omsg,        \* the MessageToOrchestrator the orchestrator is handling
    consumed,    \* number of orchestrator messages consumed
    emitted      \* number of orchestrator messages handled to the end

dvars == <<execTopic, fetchPos, commitPos, batch, mstate, epc, orchTopic,
           omsg, consumed, emitted>>

(***************************************************************************)
(* State of one call of get_new_channel_versions.                          *)
(***************************************************************************)
VARIABLES
    previous_versions,  \* the argument previous_versions: channel -> version
    current_versions,   \* the argument current_versions: channel -> version
    new_versions        \* <<>> before the call, then <<what it returned>>

uvars == <<previous_versions, current_versions, new_versions>>

vars == <<lvars, gvars, dvars, uvars>>

(***************************************************************************)
(* The graph: the process registry in insertion order and the channels.    *)
(***************************************************************************)
ProcOrder == <<"one", "two", "three">>

Procs == {ProcOrder[i] : i \in 1..Len(ProcOrder)}

\* ReservedChannels
Reserved == {"is_last_step"}

Chans == {"input", "inbox", "output", "is_last_step"}

\* Pregel.channels: the variant of each channel
Kind ==
    [input |-> "LastValue", inbox |-> "Inbox", output |-> "LastValue",
     is_last_step |-> "LastValue"]

\* the values config["recursion_limit"] is drawn from
RecursionLimits == 1..2

\* the channels the user code of a task reads with CONFIG_KEY_READ
ReadChans == {"inbox"}

\* proc.triggers (ChannelInvoke: one, two) or {proc.channel} (ChannelBatch:
\* three); a ChannelInvoke made by subscribe_to reads the channels it is
\* triggered by
Triggers ==
    [one |-> {"input"}, two |-> {"input", "inbox"}, three |-> {"inbox"}]

\* the channels the user code of a process may write to
Targets ==
    [one   |-> {"inbox", "output"},
     two   |-> {"inbox", "output", "is_last_step"},
     three |-> {"output", "input"}]

ProcNum == [one |-> 1, two |-> 2, three |-> 3]

\* the value a process writes with its k-th send of a step
ValOf(p, k) == 10 * ProcNum[p] + k

\* Python's None, as _read_channel returns it for an empty channel
None == <<-1>>

NoErr == <<"none">>

(***************************************************************************)
(* The channel variants' contract (permchain.channels).                    *)
(***************************************************************************)
\* BaseChannel.update(values): LastValue takes exactly one value per step
\* and rejects more with InvalidUpdateError; Inbox holds the values of the
\* step just ended, in order, and is reset by an empty update.
ChannelUpdate(k, old, vals) ==
    IF k = "LastValue"
    THEN IF Len(vals) = 0 THEN [ok |-> TRUE, val |-> old]
         ELSE IF Len(vals) # 1 THEN [ok |-> FALSE, val |-> old]
         ELSE [ok |-> TRUE, val |-> <<vals[Len(vals)]>>]
    ELSE [ok |-> TRUE, val |-> vals]

\* BaseChannel.get() raises EmptyChannelError: a LastValue never written
ChannelEmpty(k, val) == k = "LastValue" /\ val = <<>>

\* _read_channel: the channel's value, None when it raises EmptyChannelError
\* (the catch argument is not consulted)
ReadChannel(vals, kd, c) ==
    IF ChannelEmpty(kd[c], vals[c]) THEN None ELSE vals[c]

(***************************************************************************)
(* _apply_writes                                                           *)
(***************************************************************************)
RECURSIVE ValsFor(_, _)
\* pending_writes_by_channel[c]: the values written to c, in list order
ValsFor(pw, c) ==
    IF pw = <<>> THEN <<>>
    ELSE (IF Head(pw)[1] = c THEN <<Head(pw)[2]>> ELSE <<>>)
         \o ValsFor(Tail(pw), c)

RECURSIVE FirstSeen(_, _)
\* the keys of pending_writes_by_channel in dict insertion order
FirstSeen(pw, acc) ==
    IF pw = <<>> THEN acc
    ELSE IF \E i \in 1..Len(acc) : acc[i] = Head(pw)[1]
         THEN FirstSeen(Tail(pw), acc)
         ELSE FirstSeen(Tail(pw), Append(acc, Head(pw)[1]))

\* the grouping loop raises ValueError on the first reserved channel name
HasReservedWrite(pw) == \E i \in 1..Len(pw) : pw[i][1] \in Reserved

\* mutant: is_last_step is set one step late
IsLastStepValueLate(for_step, lim) == IF for_step = lim THEN 1 ELSE 0

\* the value _apply_writes stores in is_last_step (1 for True, 0 for False)
IsLastStepValue(for_step, lim) == IF for_step + 1 = lim THEN 1 ELSE 0

\* mutant: the version of an updated channel is not advanced
NextVersionSame(v) == v

\* checkpoint["versions"][chan] += 1
NextVersion(v) == v + 1

RECURSIVE UpdateLoopSwallow(_, _, _, _, _)
\* mutant: an update the channel rejects is skipped instead of raised
UpdateLoopSwallow(order, st, kd, pw, last) ==
    IF order = <<>> THEN st
    ELSE LET c == Head(order)
             vals == IF c = "is_last_step" THEN <<last>> ELSE ValsFor(pw, c)
         IN IF c \notin DOMAIN st.chanVal
            THEN UpdateLoopSwallow(Tail(order), st, kd, pw, last)
            ELSE LET u == ChannelUpdate(kd[c], st.chanVal[c], vals)
                 IN IF ~u.ok
                    THEN UpdateLoopSwallow(Tail(order), st, kd, pw, last)
                    ELSE UpdateLoopSwallow(Tail(order),
                                    [st EXCEPT !.chanVal[c] = u.val,
                                               !.versions[c] = @ + 1,
                                               !.updated = @ \cup {c}],
                                    kd, pw, last)

RECURSIVE UpdateLoop(_, _, _, _, _)
\* the loop over pending_writes_by_channel.items(): update and bump the
\* version of each channel in turn; an update that raises ends the loop with
\* the earlier channels already updated
UpdateLoop(order, st, kd, pw, last) ==
    IF order = <<>> THEN st
    ELSE LET c == Head(order)
             vals == IF c = "is_last_step" THEN <<last>> ELSE ValsFor(pw, c)
         IN IF c \notin DOMAIN st.chanVal
            THEN UpdateLoop(Tail(order), st, kd, pw, last)
            ELSE LET u == ChannelUpdate(kd[c], st.chanVal[c], vals)
                 IN IF ~u.ok
                    THEN [st EXCEPT !.err = <<"InvalidUpdate">>]
                    ELSE UpdateLoop(Tail(order),
                                    [st EXCEPT !.chanVal[c] = u.val,
                                               !.versions[c] = NextVersion(@),
                                               !.updated = @ \cup {c}],
                                    kd, pw, last)

\* mutant: channels that received no write are left alone
NotifyRestNone(st, kd) == st

\* channels that were not updated in this step are notified of a new step
NotifyRest(st, kd) ==
    [st EXCEPT !.chanVal =
        [c \in DOMAIN st.chanVal |->
            IF c \in st.updated THEN st.chanVal[c]
            ELSE ChannelUpdate(kd[c], st.chanVal[c], <<>>).val]]

\* mutant: the reserved names are checked after the other channels' writes
\* were applied
ApplyWritesLateCheck(vers, vals, kd, pw, for_step, lim) ==
    LET st0 == [err |-> NoErr, versions |-> vers, chanVal |-> vals,
                updated |-> {}]
        user == SelectSeq(pw, LAMBDA w : w[1] \notin Reserved)
        st1 == UpdateLoop(FirstSeen(user, <<>>), st0, kd, user,
                          IsLastStepValue(for_step, lim))
    IN IF st1.err # NoErr THEN st1
       ELSE IF HasReservedWrite(pw)
            THEN [st1 EXCEPT !.err = <<"ReservedChannelWrite">>]
            ELSE NotifyRest(UpdateLoop(<<"is_last_step">>, st1, kd, pw,
                                       IsLastStepValue(for_step, lim)), kd)

\* _apply_writes(checkpoint, channels, pending_writes, config, for_step):
\* the resulting versions and channel values, and the error raised if any
ApplyWrites(vers, vals, kd, pw, for_step, lim) ==
    LET st0 == [err |-> NoErr, versions |-> vers, chanVal |-> vals,
                updated |-> {}]
    IN IF HasReservedWrite(pw)
       THEN [st0 EXCEPT !.err = <<"ReservedChannelWrite">>]
       ELSE LET st1 == UpdateLoop(FirstSeen(pw, <<>>) \o <<"is_last_step">>,
                                  st0, kd, pw,
                                  IsLastStepValue(for_step, lim))
            IN IF st1.err # NoErr THEN st1 ELSE NotifyRest(st1, kd)

(***************************************************************************)
(* _prepare_next_tasks                                                     *)
(***************************************************************************)
\* mutant: all() instead of any()
TriggeredAll(p, vers, sn) == \A c \in Triggers[p] : vers[c] > sn[p][c]

\* any(checkpoint["versions"][chan] > seen[chan] for chan in proc.triggers)
Triggered(p, vers, sn) == \E c \in Triggers[p] : vers[c] > sn[p][c]

\* mutant: the versions a scheduled process has seen are not recorded
PrepareNextTasksNoSeen(vers, sn, vals, kd) ==
    [tasks  |-> SelectSeq(ProcOrder, LAMBDA p : Triggered(p, vers, sn)),
     inputs |-> [p \in Procs |->
                    [c \in Triggers[p] |-> ReadChannel(vals, kd, c)]],
     seen   |-> sn]

\* the tasks in registry order, the input value of each (the value of every
\* channel the process reads; an Inbox is never empty once the input's
\* writes were applied, so the ChannelBatch read does not raise), and seen
\* updated to the current versions of the triggers of every scheduled process
PrepareNextTasks(vers, sn, vals, kd) ==
    [tasks  |-> SelectSeq(ProcOrder, LAMBDA p : Triggered(p, vers, sn)),
     inputs |-> [p \in Procs |->
                    [c \in Triggers[p] |-> ReadChannel(vals, kd, c)]],
     seen   |-> [p \in Procs |->
                    IF Triggered(p, vers, sn)
                    THEN [c \in Chans |->
                            IF c \in Triggers[p] THEN vers[c] ELSE sn[p][c]]
                    ELSE sn[p]]]

(***************************************************************************)
(* _interrupt_or_proceed                                                   *)
(***************************************************************************)
\* futures that finished by raising
Failed(t) == {p \in Procs : t[p] = "failed"}

\* futures that concurrent.futures.wait returned as not done
Inflight(t) == {p \in Procs : t[p] = "running"}

\* mutant: the exceptions of the finished futures are not looked at
InterruptOrProceedNoRaise(t, stp) ==
    IF {p \in Procs : t[p] = "running"} # {}
    THEN {<<"TimeoutError", stp>>}
    ELSE {NoErr}

\* mutant: futures still in flight after the wait are not looked at
InterruptOrProceedNoTimeout(t, stp) ==
    IF {p \in Procs : t[p] = "failed"} # {}
    THEN {<<"task", ProcNum[p]>> : p \in {q \in Procs : t[q] = "failed"}}
    ELSE {NoErr}

\* the errors _interrupt_or_proceed may raise for the futures' states t
\* (done.pop() takes the finished futures in no particular order), or
\* {NoErr} when it returns
InterruptOrProceed(t, stp) ==
    IF Failed(t) # {}
    THEN {<<"task", ProcNum[p]>> : p \in Failed(t)}
    ELSE IF Inflight(t) # {}
         THEN {<<"TimeoutError", stp>>}
         ELSE {NoErr}

\* inflight.pop().cancel() for every future still in flight
CancelInflight(t) ==
    [p \in Procs |-> IF t[p] = "running" THEN "cancelled" ELSE t[p]]

\* map_output: a value is yielded iff the step wrote to the output channel
MapOutput(pw, vals, kd) ==
    IF \E i \in 1..Len(pw) : pw[i][1] = "output"
    THEN <<ReadChannel(vals, kd, "output")>>
    ELSE <<>>

\* map_input: the writes made for the caller's input
InputWrites ==
    { <<<<"input", 2>>>>,
      <<<<"input", 2>>, <<"inbox", 12>>>> }

(***************************************************************************)
(* Each specification leaves the other engine's state at rest.             *)
(***************************************************************************)
\* get_new_channel_versions is not called
VersionsIdle ==
    /\ previous_versions = <<>>
    /\ current_versions = <<>>
    /\ new_versions = <<>>

\* no PregelLoop has been constructed
LoopIdle ==
    /\ linput = "done"
    /\ status = "done"
    /\ lstep = 0
    /\ cvers = <<>>
    /\ cseen = <<>>
    /\ channels = <<>>
    /\ ltasks = <<>>
    /\ cpw = <<>>
    /\ stream = <<>>
    /\ saved = <<>>
    /\ recursionLimit = 0
    /\ interruptBefore = {}
    /\ interruptAfter = {}
    /\ prog = "chain"
    /\ runs = 0
    /\ ret = "init"
    /\ applied = <<>>
    /\ handed = 0
    /\ cause = {}
    /\ lastStop = "none"

\* no bus worker runs
DistIdle ==
    /\ execTopic = <<>>
    /\ fetchPos = 1
    /\ commitPos = 1
    /\ batch = {}
    /\ mstate = <<>>
    /\ epc = "idle"
    /\ orchTopic = <<>>
    /\ omsg = <<>>
    /\ consumed = 0
    /\ emitted = 0

\* no local Pregel is being invoked
TransformIdle ==
    /\ lpc = "idle"
    /\ limit = 0
    /\ step = 0
    /\ chanVal = <<>>
    /\ versions = <<>>
    /\ seen = <<>>
    /\ tasks = <<>>
    /\ taskInput = <<>>
    /\ tpc = <<>>
    /\ nsent = <<>>
    /\ pending = <<>>
    /\ outputs = <<>>
    /\ err = NoErr
    /\ startVal = <<>>
    /\ startVers = <<>>
    /\ startSeen = <<>>
    /\ lastRead = <<>>
    /\ ctxSetup = 0
    /\ ctxCleanup = 0

\* no invocation is followed step by step
ManyIdle ==
    /\ minv = <<>>
    /\ mstore = <<>>

LocalIdle ==
    /\ TransformIdle
    /\ ManyIdle

(***************************************************************************)
(* Pregel._transform                                                       *)
(***************************************************************************)
\* mutant: the channels are released at the end of the block only, not when
\* an exception leaves it
LeaveWithOnSuccess(pc, n) == IF pc = "done" THEN n + 1 ELSE n

\* `with ChannelsManager(self.channels, checkpoint) as channels`: the
\* manager is left, and the channels released, when the block is left, at
\* its end or by an exception
LeaveWith(pc, n) == IF pc \in {"done", "error"} THEN n + 1 ELSE n

\* mutant: the loop goes through one more iteration than range() gives
RangeExhaustedLate(stp, lim) == stp > lim

\* `for step in range(config["recursion_limit"])`: no iteration is left
RangeExhausted(stp, lim) == stp >= lim

LocalInit ==
    /\ VersionsIdle
    /\ lpc = "init"
    /\ limit \in RecursionLimits
    /\ step = 0
    /\ chanVal = [c \in Chans |-> <<>>]
    /\ versions = [c \in Chans |-> 0]
    /\ seen = [p \in Procs |-> [c \in Chans |-> 0]]
    /\ tasks = <<>>
    /\ taskInput = [p \in Procs |-> [c \in Triggers[p] |-> None]]
    /\ tpc = [p \in Procs |-> "idle"]
    /\ nsent = [p \in Procs |-> 0]
    /\ pending = <<>>
    /\ outputs = <<>>
    /\ err = NoErr
    /\ startVal = chanVal
    /\ startVers = versions
    /\ startSeen = seen
    /\ lastRead = <<>>
    /\ ctxSetup = 0
    /\ ctxCleanup = 0
    /\ ManyIdle
    /\ LoopIdle
    /\ DistIdle

\* the head of _transform for an input whose writes are one of iws: the
\* input's writes are applied for step 0 before the loop starts
InvokeWith(iws) ==
    /\ lpc = "init"
    /\ \E iw \in iws :
        LET r == ApplyWrites(versions, chanVal, Kind, iw, 0, limit)
        IN /\ chanVal' = r.chanVal
           /\ versions' = r.versions
           /\ err' = r.err
           /\ lpc' = IF r.err = NoErr THEN "prepare" ELSE "error"
           /\ pending' = iw
    /\ ctxSetup' = ctxSetup + 1
    /\ ctxCleanup' = LeaveWith(lpc', ctxCleanup)
    /\ UNCHANGED <<limit, step, seen, tasks, taskInput, tpc, nsent,
                   outputs, startVal, startVers, startSeen, lastRead>>
    /\ UNCHANGED mvars
    /\ UNCHANGED uvars
    /\ UNCHANGED gvars
    /\ UNCHANGED dvars

\* the graph is invoked with an input that has a value for input, or for
\* input and inbox
Invoke == InvokeWith(InputWrites)

\* the head of one loop iteration: the range check, _prepare_next_tasks,
\* and the submission of every task to the executor
BeginStep ==
    /\ lpc = "prepare"
    /\ IF RangeExhausted(step, limit)
       THEN /\ lpc' = "done"
            /\ UNCHANGED <<seen, tasks, taskInput, tpc, nsent, pending,
                           startVal, startVers, startSeen, lastRead>>
       ELSE LET r == PrepareNextTasks(versions, seen, chanVal, Kind)
            IN IF r.tasks = <<>>
               THEN /\ lpc' = "done"
                    /\ UNCHANGED <<seen, tasks, taskInput, tpc, nsent, pending,
                                   startVal, startVers, startSeen, lastRead>>
               ELSE /\ lpc' = "running"
                    /\ tasks' = r.tasks
                    /\ taskInput' = r.inputs
                    /\ seen' = r.seen
                    /\ tpc' = [p \in Procs |->
                                IF \E i \in 1..Len(r.tasks) : r.tasks[i] = p
                                THEN "running" ELSE "idle"]
                    /\ nsent' = [p \in Procs |-> 0]
                    /\ pending' = <<>>
                    /\ startVal' = chanVal
                    /\ startVers' = versions
                    /\ startSeen' = seen
                    /\ lastRead' = <<>>
    /\ ctxCleanup' = LeaveWith(lpc', ctxCleanup)
    /\ UNCHANGED <<limit, step, chanVal, versions, outputs, err, ctxSetup>>
    /\ UNCHANGED mvars
    /\ UNCHANGED uvars
    /\ UNCHANGED gvars
    /\ UNCHANGED dvars

\* a task reads a channel with the read function of its config
TaskRead(p, c) ==
    /\ lpc = "running"
    /\ tpc[p] = "running"
    /\ lastRead' = <<c, ReadChannel(chanVal, Kind, c)>>
    /\ UNCHANGED <<lpc, limit, step, chanVal, versions, seen, tasks,
                   taskInput, tpc, nsent, pending, outputs, err, startVal,
                   startVers, startSeen>>
    /\ UNCHANGED <<ctxSetup, ctxCleanup>>
    /\ UNCHANGED mvars
    /\ UNCHANGED uvars
    /\ UNCHANGED gvars
    /\ UNCHANGED dvars

\* mutant: the write is also applied to the channel at once
SendWriteThrough(pw, vals, p, c, k) ==
    [pending |-> Append(pw, <<c, ValOf(p, k)>>),
     chanVal |-> IF c \in DOMAIN vals
                 THEN [vals EXCEPT ![c] = Append(@, ValOf(p, k))]
                 ELSE vals]

\* CONFIG_KEY_SEND is pending_writes.extend: the write is appended to the
\* step's deque and the channels are left as they are
SendWrite(pw, vals, p, c, k) ==
    [pending |-> Append(pw, <<c, ValOf(p, k)>>), chanVal |-> vals]

\* a task sends a write (a cancelled task sends nothing that is ever
\* applied: the deque of a step that raised is abandoned)
TaskSend(p, c) ==
    /\ lpc = "running"
    /\ tpc[p] = "running"
    /\ Len(pending) < MaxPending
    /\ c \in Targets[p]
    /\ nsent' = [nsent EXCEPT ![p] = @ + 1]
    /\ LET r == SendWrite(pending, chanVal, p, c, nsent[p] + 1)
       IN /\ pending' = r.pending
          /\ chanVal' = r.chanVal
    /\ UNCHANGED <<lpc, limit, step, versions, seen, tasks,
                   taskInput, tpc, outputs, err, startVal, startVers,
                   startSeen, lastRead>>
    /\ UNCHANGED <<ctxSetup, ctxCleanup>>
    /\ UNCHANGED mvars
    /\ UNCHANGED uvars
    /\ UNCHANGED gvars
    /\ UNCHANGED dvars

\* the task's invoke returns
TaskFinish(p) ==
    /\ lpc = "running"
    /\ tpc[p] = "running"
    /\ tpc' = [tpc EXCEPT ![p] = "done"]
    /\ UNCHANGED <<lpc, limit, step, chanVal, versions, seen, tasks,
                   taskInput, nsent, pending, outputs, err, startVal,
                   startVers, startSeen, lastRead>>
    /\ UNCHANGED <<ctxSetup, ctxCleanup>>
    /\ UNCHANGED mvars
    /\ UNCHANGED uvars
    /\ UNCHANGED gvars
    /\ UNCHANGED dvars

\* the task's invoke raises
TaskFail(p) ==
    /\ lpc = "running"
    /\ tpc[p] = "running"
    /\ tpc' = [tpc EXCEPT ![p] = "failed"]
    /\ UNCHANGED <<lpc, limit, step, chanVal, versions, seen, tasks,
                   taskInput, nsent, pending, outputs, err, startVal,
                   startVers, startSeen, lastRead>>
    /\ UNCHANGED <<ctxSetup, ctxCleanup>>
    /\ UNCHANGED mvars
    /\ UNCHANGED uvars
    /\ UNCHANGED gvars
    /\ UNCHANGED dvars

\* mutant: the value of the output channel is yielded after every step
YieldOutputsEveryStep(outs, pw, vals) ==
    Append(outs, ReadChannel(vals, Kind, "output"))

\* `for output in map_output(self.output, pending_writes, channels): yield
\* output`, after the step's writes are applied
YieldOutputs(outs, pw, vals) == outs \o MapOutput(pw, vals, Kind)

\* concurrent.futures.wait returns (every future done, one raised, or the
\* step timeout passed), then _interrupt_or_proceed, _apply_writes and the
\* yield of the step's output
EndStep ==
    /\ lpc = "running"
    /\ \E e \in InterruptOrProceed(tpc, step) :
        IF e # NoErr
        THEN /\ err' = e
             /\ lpc' = "error"
             /\ tpc' = CancelInflight(tpc)
             /\ UNCHANGED <<chanVal, versions, outputs, step>>
        ELSE LET r == ApplyWrites(versions, chanVal, Kind, pending,
                                  step + 1, limit)
             IN /\ chanVal' = r.chanVal
                /\ versions' = r.versions
                /\ err' = r.err
                /\ tpc' = tpc
                /\ IF r.err # NoErr
                   THEN /\ lpc' = "error"
                        /\ UNCHANGED <<outputs, step>>
                   ELSE /\ lpc' = "prepare"
                        /\ outputs' = YieldOutputs(outputs, pending, r.chanVal)
                        /\ step' = step + 1
    /\ ctxCleanup' = LeaveWith(lpc', ctxCleanup)
    /\ UNCHANGED <<limit, seen, tasks, taskInput, nsent, pending,
                   startVal, startVers, startSeen, lastRead, ctxSetup>>
    /\ UNCHANGED mvars
    /\ UNCHANGED uvars
    /\ UNCHANGED gvars
    /\ UNCHANGED dvars

LocalNext ==
    \/ Invoke
    \/ BeginStep
    \/ \E p \in Procs, c \in ReadChans : TaskRead(p, c)
    \/ \E p \in Procs, c \in Chans : TaskSend(p, c)
    \/ \E p \in Procs : TaskFinish(p)
    \/ \E p \in Procs : TaskFail(p)
    \/ EndStep

SpecLocal == LocalInit /\ [][LocalNext]_vars

(***************************************************************************)
(* The same graph invoked with an input that has a value for the inbox     *)
(* only (input = ["input", "inbox"], the caller's dict holding one of the  *)
(* two keys), so that the LastValue channel input is never written.        *)
(***************************************************************************)
\* map_input: the writes made for the caller's input {"inbox": 12}
PartialInputWrites == { << <<"inbox", 12>> >> }

PartialInvoke == InvokeWith(PartialInputWrites)

PartialNext ==
    \/ PartialInvoke
    \/ BeginStep
    \/ \E p \in Procs, c \in ReadChans : TaskRead(p, c)
    \/ \E p \in Procs, c \in Chans : TaskSend(p, c)
    \/ \E p \in Procs : TaskFinish(p)
    \/ \E p \in Procs : TaskFail(p)
    \/ EndStep

SpecPartial == LocalInit /\ [][PartialNext]_vars

(***************************************************************************)
(* The end of the first step for every list of writes its tasks may have   *)
(* sent: the input's write was applied, processes one and two were         *)
(* submitted and have returned, and wait() is about to return.             *)
(***************************************************************************)
\* what a task may pass to CONFIG_KEY_SEND: the process and the channel
StepSends(tsk) ==
    UNION {{<<tsk[i], c>> : c \in Targets[tsk[i]]} : i \in 1..Len(tsk)}

\* the send calls of a step's tasks in the order they were made, at most
\* MaxWrites of them
SendLists(tsk) == UNION {[1..n -> StepSends(tsk)] : n \in 0..MaxWrites}

RECURSIVE SentBy(_, _, _)
\* the deque after the send calls calls, appended to pw; n counts the
\* sends each task has made
SentBy(calls, pw, n) ==
    IF calls = <<>> THEN [pending |-> pw, nsent |-> n]
    ELSE LET p == Head(calls)[1]
             c == Head(calls)[2]
         IN SentBy(Tail(calls),
                   SendWrite(pw, <<>>, p, c, n[p] + 1).pending,
                   [n EXCEPT ![p] = @ + 1])

StepEndInit ==
    /\ VersionsIdle
    /\ lpc = "running"
    /\ limit \in RecursionLimits
    /\ step = 0
    /\ LET a == ApplyWrites([c \in Chans |-> 0], [c \in Chans |-> <<>>],
                            Kind, << <<"input", 2>> >>, 0, limit)
           r == PrepareNextTasks(a.versions,
                                 [p \in Procs |-> [c \in Chans |-> 0]],
                                 a.chanVal, Kind)
       IN /\ chanVal = a.chanVal
          /\ versions = a.versions
          /\ seen = r.seen
          /\ tasks = r.tasks
          /\ taskInput = r.inputs
          /\ tpc = [p \in Procs |->
                      IF \E i \in 1..Len(r.tasks) : r.tasks[i] = p
                      THEN "done" ELSE "idle"]
          /\ \E calls \in SendLists(r.tasks) :
                LET s == SentBy(calls, <<>>, [p \in Procs |-> 0])
                IN /\ nsent = s.nsent
                   /\ pending = s.pending
          /\ startSeen = [p \in Procs |-> [c \in Chans |-> 0]]
    /\ outputs = <<>>
    /\ err = NoErr
    /\ startVal = chanVal
    /\ startVers = versions
    /\ lastRead = <<>>
    /\ ctxSetup = 1
    /\ ctxCleanup = 0
    /\ ManyIdle
    /\ LoopIdle
    /\ DistIdle

StepEndNext == EndStep

SpecStepEnd == StepEndInit /\ [][StepEndNext]_vars

(***************************************************************************)
(* Several invocations of one graph without a checkpointer, each one       *)
(* followed one superstep at a time, the steps of different invocations    *)
(* interleaved in any order.  The nodes are the add_one chains of the      *)
(* tests: one passes its input plus one to the inbox, three passes each    *)
(* item of the inbox plus one to the output, two writes nothing.           *)
(***************************************************************************)
Invocations == 1..MaxInvocations

\* the inputs the invocations are made with
ManyInputs == {2, 3}

\* what the node of p sends for the input inp it was prepared with
AddOneWrites(p, inp) ==
    IF p = "one" THEN << <<"inbox", inp["input"][1] + 1>> >>
    ELSE IF p = "three"
         THEN [i \in 1..Len(inp["inbox"]) |->
                 <<"output", inp["inbox"][i] + 1>>]
         ELSE <<>>

RECURSIVE StepWritesOf(_, _)
\* pending_writes of a step whose tasks all run to the end, in task order
StepWritesOf(tsk, inputs) ==
    IF tsk = <<>> THEN <<>>
    ELSE AddOneWrites(Head(tsk), inputs[Head(tsk)])
         \o StepWritesOf(Tail(tsk), inputs)

\* mutant: every invocation works on the graph's own channel objects
ChannelsShared(k) == 0

\* `with ChannelsManager(self.channels, checkpoint) as channels`: the
\* channel objects an invocation works on are made for it
ChannelsOf(k) == k

\* empty_checkpoint(): the checkpoint an invocation starts from when the
\* graph has no saver
EmptyCheckpoint ==
    [vers |-> [c \in Chans |-> 0],
     seen |-> [p \in Procs |-> [c \in Chans |-> 0]]]

\* the head of _transform for input x: the input's writes are applied to
\* the channel values vals for step 0
InvokeOf(x, lim, vals) ==
    LET a == ApplyWrites(EmptyCheckpoint.vers, vals, Kind,
                         << <<"input", x>> >>, 0, lim)
    IN [inv |-> [pc |-> IF a.err = NoErr THEN "prepare" ELSE "error",
                 inp |-> x, lim |-> lim, vers |-> a.versions,
                 seen |-> EmptyCheckpoint.seen, step |-> 0, outs |-> <<>>],
        vals |-> a.chanVal]

\* one iteration of `for step in range(config["recursion_limit"])` for the
\* invocation r on the channel values vals, every task running to the end
StepOf(r, vals) ==
    IF RangeExhausted(r.step, r.lim)
    THEN [inv |-> [r EXCEPT !.pc = "done"], vals |-> vals]
    ELSE LET prep == PrepareNextTasks(r.vers, r.seen, vals, Kind)
         IN IF prep.tasks = <<>>
            THEN [inv |-> [r EXCEPT !.pc = "done"], vals |-> vals]
            ELSE LET w == StepWritesOf(prep.tasks, prep.inputs)
                     a == ApplyWrites(r.vers, vals, Kind, w, r.step + 1,
                                      r.lim)
                 IN IF a.err # NoErr
                    THEN [inv |-> [r EXCEPT !.pc = "error",
                                            !.seen = prep.seen,
                                            !.vers = a.versions],
                          vals |-> a.chanVal]
                    ELSE [inv |-> [r EXCEPT !.seen = prep.seen,
                                            !.vers = a.versions,
                                            !.step = @ + 1,
                                            !.outs = YieldOutputs(@, w,
                                                                  a.chanVal)],
                          vals |-> a.chanVal]

RECURSIVE RunAlone(_, _)
\* the invocation r run to its end on channel values nothing else touches
RunAlone(r, vals) ==
    IF r.pc # "prepare" THEN r
    ELSE LET s == StepOf(r, vals) IN RunAlone(s.inv, s.vals)

\* what an invocation with input x and recursion limit lim comes to when it
\* is the only one
Alone(x, lim) ==
    LET s == InvokeOf(x, lim, [c \in Chans |-> <<>>])
    IN RunAlone(s.inv, s.vals)

\* an invocation that has not been made yet
NotInvoked ==
    [pc |-> "idle", inp |-> 0, lim |-> 0, vers |-> EmptyCheckpoint.vers,
     seen |-> EmptyCheckpoint.seen, step |-> 0, outs |-> <<>>]

ManyInit ==
    /\ VersionsIdle
    /\ minv = [k \in Invocations |-> NotInvoked]
    /\ mstore = [k \in {0} \cup Invocations |-> [c \in Chans |-> <<>>]]
    /\ TransformIdle
    /\ LoopIdle
    /\ DistIdle

\* invocation k is made, with input x and recursion limit lim
ManyInvoke(k, x, lim) ==
    /\ minv[k].pc = "idle"
    /\ LET s == InvokeOf(x, lim, mstore[ChannelsOf(k)])
       IN /\ minv' = [minv EXCEPT ![k] = s.inv]
          /\ mstore' = [mstore EXCEPT ![ChannelsOf(k)] = s.vals]
    /\ UNCHANGED tvars
    /\ UNCHANGED uvars
    /\ UNCHANGED gvars
    /\ UNCHANGED dvars

\* invocation k goes through one iteration of its loop
ManyStep(k) ==
    /\ minv[k].pc = "prepare"
    /\ LET s == StepOf(minv[k], mstore[ChannelsOf(k)])
       IN /\ minv' = [minv EXCEPT ![k] = s.inv]
          /\ mstore' = [mstore EXCEPT ![ChannelsOf(k)] = s.vals]
    /\ UNCHANGED tvars
    /\ UNCHANGED uvars
    /\ UNCHANGED gvars
    /\ UNCHANGED dvars

ManyNext ==
    \/ \E k \in Invocations, x \in ManyInputs, lim \in RecursionLimits :
          ManyInvoke(k, x, lim)
    \/ \E k \in Invocations : ManyStep(k)

SpecMany == ManyInit /\ [][ManyNext]_vars

(***************************************************************************)
(* The local engine on a linear pipeline: the chain of add_one processes   *)
(* of test_invoke_many_processes_in_out, PipeLen processes long.  Process  *)
(* i subscribes to the channel process i - 1 writes to; the first one      *)
(* subscribes to the input and the last one writes to the output.          *)
(***************************************************************************)
\* the names of the channels between two processes, as the test names them
PipeLinks == <<"-1", "0", "1", "2", "3", "4">>

\* the registry, in insertion order
PipeProcs == 1..PipeLen

\* the channel process i subscribes to
PipeSrc(i) == IF i = 1 THEN "input" ELSE PipeLinks[i - 1]

\* the channel process i writes to
PipeDst(i) == IF i = PipeLen THEN "output" ELSE PipeLinks[i]

PipeChans ==
    {"input", "output", "is_last_step"}
        \cup {PipeLinks[i] : i \in 1..(PipeLen - 1)}

PipeKind == [c \in PipeChans |-> "LastValue"]

\* the recursion limits the pipeline is invoked with: the test's
\* (recursion_limit = test_size), the smaller ones and one larger
PipeLimits == 1..(PipeLen + 1)

\* the inputs the pipeline is invoked with
PipeInputs == {1, 2, 3}

\* _prepare_next_tasks: process i is scheduled when the channel it
\* subscribes to has a version it has not seen
PipeTriggered(i, vers, sn) == vers[PipeSrc(i)] > sn[i][PipeSrc(i)]

\* _prepare_next_tasks on the pipeline: the tasks in registry order, the
\* value each one is invoked with, and seen updated for the scheduled ones
PipePrepareNextTasks(vers, sn, vals) ==
    [tasks  |-> SelectSeq([i \in PipeProcs |-> i],
                          LAMBDA i : PipeTriggered(i, vers, sn)),
     inputs |-> [i \in PipeProcs |-> ReadChannel(vals, PipeKind, PipeSrc(i))],
     seen   |-> [i \in PipeProcs |->
                    IF PipeTriggered(i, vers, sn)
                    THEN [sn[i] EXCEPT ![PipeSrc(i)] = vers[PipeSrc(i)]]
                    ELSE sn[i]]]

PipeInit ==
    /\ VersionsIdle
    /\ lpc = "init"
    /\ limit \in PipeLimits
    /\ step = 0
    /\ chanVal = [c \in PipeChans |-> <<>>]
    /\ versions = [c \in PipeChans |-> 0]
    /\ seen = [i \in PipeProcs |-> [c \in PipeChans |-> 0]]
    /\ tasks = <<>>
    /\ taskInput = [i \in PipeProcs |-> None]
    /\ tpc = [i \in PipeProcs |-> "idle"]
    /\ nsent = [i \in PipeProcs |-> 0]
    /\ pending = <<>>
    /\ outputs = <<>>
    /\ err = NoErr
    /\ startVal = chanVal
    /\ startVers = versions
    /\ startSeen = seen
    /\ lastRead = <<>>
    /\ ctxSetup = 0
    /\ ctxCleanup = 0
    /\ ManyIdle
    /\ LoopIdle
    /\ DistIdle

\* app.invoke(x, {"recursion_limit": limit}): the input's write is applied
\* for step 0 before the loop starts
PipeInvoke(x) ==
    /\ lpc = "init"
    /\ LET r == ApplyWrites(versions, chanVal, PipeKind,
                            << <<"input", x>> >>, 0, limit)
       IN /\ chanVal' = r.chanVal
          /\ versions' = r.versions
          /\ err' = r.err
          /\ lpc' = IF r.err = NoErr THEN "prepare" ELSE "error"
          /\ pending' = << <<"input", x>> >>
    /\ ctxSetup' = ctxSetup + 1
    /\ ctxCleanup' = LeaveWith(lpc', ctxCleanup)
    /\ UNCHANGED <<limit, step, seen, tasks, taskInput, tpc, nsent,
                   outputs, startVal, startVers, startSeen, lastRead>>
    /\ UNCHANGED mvars
    /\ UNCHANGED uvars
    /\ UNCHANGED gvars
    /\ UNCHANGED dvars

\* the head of one loop iteration: the range check, _prepare_next_tasks,
\* and the submission of every task to the executor
PipeBeginStep ==
    /\ lpc = "prepare"
    /\ IF RangeExhausted(step, limit)
       THEN /\ lpc' = "done"
            /\ UNCHANGED <<seen, tasks, taskInput, tpc, nsent, pending,
                           startVal, startVers, startSeen>>
       ELSE LET r == PipePrepareNextTasks(versions, seen, chanVal)
            IN IF r.tasks = <<>>
               THEN /\ lpc' = "done"
                    /\ UNCHANGED <<seen, tasks, taskInput, tpc, nsent,
                                   pending, startVal, startVers, startSeen>>
               ELSE /\ lpc' = "running"
                    /\ tasks' = r.tasks
                    /\ taskInput' = r.inputs
                    /\ seen' = r.seen
                    /\ tpc' = [i \in PipeProcs |->
                                IF \E j \in 1..Len(r.tasks) : r.tasks[j] = i
                                THEN "running" ELSE "idle"]
                    /\ nsent' = [i \in PipeProcs |-> 0]
                    /\ pending' = <<>>
                    /\ startVal' = chanVal
                    /\ startVers' = versions
                    /\ startSeen' = seen
    /\ ctxCleanup' = LeaveWith(lpc', ctxCleanup)
    /\ UNCHANGED <<limit, step, chanVal, versions, outputs, err, ctxSetup,
                   lastRead>>
    /\ UNCHANGED mvars
    /\ UNCHANGED uvars
    /\ UNCHANGED gvars
    /\ UNCHANGED dvars

\* the task of process i runs subscribe_to | add_one | write_to: it sends
\* its input plus one to the channel it writes to, and returns
PipeTaskFinish(i) ==
    /\ lpc = "running"
    /\ tpc[i] = "running"
    /\ pending' = Append(pending, <<PipeDst(i), taskInput[i][1] + 1>>)
    /\ nsent' = [nsent EXCEPT ![i] = @ + 1]
    /\ tpc' = [tpc EXCEPT ![i] = "done"]
    /\ UNCHANGED <<lpc, limit, step, chanVal, versions, seen, tasks,
                   taskInput, outputs, err, startVal, startVers, startSeen,
                   lastRead, ctxSetup, ctxCleanup>>
    /\ UNCHANGED mvars
    /\ UNCHANGED uvars
    /\ UNCHANGED gvars
    /\ UNCHANGED dvars

\* the task of process i raises before it sends anything
PipeTaskFail(i) ==
    /\ lpc = "running"
    /\ tpc[i] = "running"
    /\ tpc' = [tpc EXCEPT ![i] = "failed"]
    /\ UNCHANGED <<lpc, limit, step, chanVal, versions, seen, tasks,
                   taskInput, nsent, pending, outputs, err, startVal,
                   startVers, startSeen, lastRead, ctxSetup, ctxCleanup>>
    /\ UNCHANGED mvars
    /\ UNCHANGED uvars
    /\ UNCHANGED gvars
    /\ UNCHANGED dvars

\* the tail of one loop iteration: wait() has returned, a failed task's
\* exception is raised by _interrupt_or_proceed, the step's writes are
\* applied for step + 1 and the output is yielded
PipeEndStep ==
    /\ lpc = "running"
    /\ \A i \in PipeProcs : tpc[i] # "running"
    /\ IF \E i \in PipeProcs : tpc[i] = "failed"
       THEN /\ lpc' = "error"
            /\ err' = <<"TaskError">>
            /\ UNCHANGED <<step, chanVal, versions, outputs>>
       ELSE LET r == ApplyWrites(versions, chanVal, PipeKind, pending,
                                 step + 1, limit)
            IN /\ chanVal' = r.chanVal
               /\ versions' = r.versions
               /\ err' = r.err
               /\ IF r.err = NoErr
                  THEN /\ lpc' = "prepare"
                       /\ step' = step + 1
                       /\ outputs' = YieldOutputs(outputs, pending, r.chanVal)
                  ELSE /\ lpc' = "error"
                       /\ UNCHANGED <<step, outputs>>
    /\ tpc' = [i \in PipeProcs |-> "idle"]
    /\ ctxCleanup' = LeaveWith(lpc', ctxCleanup)
    /\ UNCHANGED <<limit, seen, tasks, taskInput, nsent, pending, startVal,
                   startVers, startSeen, lastRead, ctxSetup>>
    /\ UNCHANGED mvars
    /\ UNCHANGED uvars
    /\ UNCHANGED gvars
    /\ UNCHANGED dvars

PipeNext ==
    \/ \E x \in PipeInputs : PipeInvoke(x)
    \/ PipeBeginStep
    \/ \E i \in PipeProcs : PipeTaskFinish(i)
    \/ \E i \in PipeProcs : PipeTaskFail(i)
    \/ PipeEndStep

SpecPipe == PipeInit /\ [][PipeNext]_vars

(***************************************************************************)
(* The checkpointed step loop: the graph it runs.                          *)
(***************************************************************************)
\* graph.nodes in insertion order: a and b fan out from input, c joins
LoopProcOrder == <<"a", "b", "c">>

LoopProcs == {LoopProcOrder[i] : i \in 1..Len(LoopProcOrder)}

\* graph.channels and the variant of each
LoopChans == {"input", "inbox", "output"}

LoopKind == [input |-> "LastValue", inbox |-> "Inbox", output |-> "LastValue"]

LoopTriggers == [a |-> {"input"}, b |-> {"input"}, c |-> {"inbox"}]

\* the programs the nodes run: in "cycle" the last node feeds the input again
Programs == {"chain", "cycle"}

\* task.writes of a finished task: what its node sends
TaskWrites(n, pg) ==
    IF n = "a" THEN << <<"inbox", 11>> >>
    ELSE IF n = "b" THEN << <<"inbox", 21>>, <<"inbox", 22>> >>
    ELSE IF pg = "chain" THEN << <<"output", 31>> >>
    ELSE << <<"input", 31>> >>

\* the key of versions_seen the interrupt guard uses
INTERRUPT == "__interrupt__"

\* the values interrupt_before and interrupt_after are drawn from
InterruptPolicies == {{}, {"c"}}

\* map_input(graph.input_channels, input) for an input that is not None
LoopInputWrites == << <<"input", 2>> >>

\* the id of a task that is not a task of the current step
StaleTaskId == <<-9, "stale">>

\* PregelExecutableTask.id, deterministic from the step and the process
TaskId(stp, n) == <<stp, n>>

(***************************************************************************)
(* langgraph.pregel.algo, langgraph.channels.manager and langgraph.pregel.io *)
(* as the step loop calls them.                                            *)
(***************************************************************************)
\* increment, the version generator used when the checkpointer has none
Increment(v) == v + 1

RECURSIVE AlgoUpdateLoop(_, _, _)
\* apply_writes, step 3: update each written channel in turn and advance
\* its version; an update that raises ends the loop
AlgoUpdateLoop(order, st, pw) ==
    IF order = <<>> THEN st
    ELSE LET c == Head(order)
             u == ChannelUpdate(LoopKind[c], st.chanVal[c], ValsFor(pw, c))
         IN IF ~u.ok
            THEN [st EXCEPT !.err = <<"InvalidUpdate">>]
            ELSE AlgoUpdateLoop(Tail(order),
                                [st EXCEPT !.chanVal[c] = u.val,
                                           !.versions[c] = Increment(@),
                                           !.updated = @ \cup {c}],
                                pw)

\* apply_writes(checkpoint, channels, writes, get_next_version): group the
\* writes by channel, reject reserved names, update the written channels and
\* notify the others with an empty update
AlgoApplyWrites(vers, vals, pw) ==
    LET st0 == [err |-> NoErr, versions |-> vers, chanVal |-> vals,
                updated |-> {}]
    IN IF HasReservedWrite(pw)
       THEN [st0 EXCEPT !.err = <<"ReservedChannelWrite">>]
       ELSE LET st1 == AlgoUpdateLoop(FirstSeen(pw, <<>>), st0, pw)
            IN IF st1.err # NoErr THEN st1 ELSE NotifyRest(st1, LoopKind)

\* a process is triggered when a trigger channel's version is newer than
\* the version the process has seen
AlgoTriggered(n, vers, sn) == \E c \in LoopTriggers[n] : vers[c] > sn[n][c]

\* prepare_next_tasks(..., for_execution=True): the checkpoint with
\* versions_seen bumped for the triggered processes, and their tasks in
\* registry order, each with an empty writes buffer
AlgoPrepareNextTasks(vers, sn, stp) ==
    LET names == SelectSeq(LoopProcOrder, LAMBDA n : AlgoTriggered(n, vers, sn))
    IN [seen  |-> [n \in DOMAIN sn |->
                     IF n \in LoopProcs /\ AlgoTriggered(n, vers, sn)
                     THEN [c \in LoopChans |->
                             IF c \in LoopTriggers[n] THEN vers[c]
                             ELSE sn[n][c]]
                     ELSE sn[n]],
        tasks |-> [i \in 1..Len(names) |->
                     [id |-> TaskId(stp, names[i]), name |-> names[i],
                      writes |-> <<>>]]]

\* should_interrupt(checkpoint, interrupt_nodes, tasks): some channel changed
\* since the last interrupt was passed and a task's process is named
ShouldInterrupt(vers, sn, names, tsk) ==
    /\ \E c \in LoopChans : vers[c] > sn[INTERRUPT][c]
    /\ \E i \in 1..Len(tsk) : tsk[i].name \in names

\* map_output_values: a values event iff the step wrote to the output channel
MapOutputValues(pw, vals) ==
    IF \E i \in 1..Len(pw) : pw[i][1] = "output"
    THEN << <<"values", vals["output"][1]>> >>
    ELSE <<>>

\* empty_checkpoint() with metadata {"step": -2}: what __enter__ starts
\* from when the checkpointer has nothing saved for the thread
EmptySaved ==
    [vers |-> [c \in LoopChans |-> 0],
     seen |-> [n \in LoopProcs \cup {INTERRUPT} |-> [c \in LoopChans |-> 0]],
     vals |-> [c \in LoopChans |-> <<>>],
     step |-> -2,
     pw   |-> <<>>]

(***************************************************************************)
(* PregelLoop, run with a checkpointer.  A value L below is the state a    *)
(* call of tick works on: the checkpoint's channel_versions (vers) and     *)
(* versions_seen (seen), the channels (vals), self.step, self.stream, the  *)
(* checkpointer's content (saved) and checkpoint_pending_writes (cpw).     *)
(***************************************************************************)
\* put_checkpoint: create_checkpoint snapshots the channels, the checkpointer
\* stores the copy with the metadata's step (the new checkpoint has no
\* pending writes yet), a debug event is streamed, and step is incremented
PutCheckpoint(L) ==
    [L EXCEPT !.saved = [vers |-> L.vers, seen |-> L.seen, vals |-> L.vals,
                         step |-> L.step, pw |-> <<>>],
              !.stream = Append(@, <<"debug", L.step>>),
              !.step = @ + 1]

\* mutant: an invocation without input leaves versions_seen[INTERRUPT] alone
FirstNoInterruptSeen(L, inp) ==
    IF inp = "some"
    THEN LET p == AlgoPrepareNextTasks(L.vers, L.seen, L.step)
             r == AlgoApplyWrites(L.vers, L.vals, LoopInputWrites)
         IN PutCheckpoint([L EXCEPT !.seen = p.seen,
                                    !.vers = r.versions,
                                    !.vals = r.chanVal])
    ELSE L

\* mutant: the unfinished tasks of the loaded checkpoint are not discarded
FirstNoDiscard(L, inp) ==
    IF inp = "some"
    THEN LET r == AlgoApplyWrites(L.vers, L.vals, LoopInputWrites)
         IN PutCheckpoint([L EXCEPT !.vers = r.versions,
                                    !.vals = r.chanVal])
    ELSE [L EXCEPT !.seen[INTERRUPT] =
            [c \in LoopChans |-> IF L.vers[c] # 0 THEN L.vers[c] ELSE @[c]]]

\* first: with input, the unfinished tasks of the loaded checkpoint are
\* discarded (their triggers marked as seen), the input's writes applied and
\* a source=input checkpoint put; without input, versions_seen[INTERRUPT] is
\* set to the version of every versioned channel
First(L, inp) ==
    IF inp = "some"
    THEN LET p == AlgoPrepareNextTasks(L.vers, L.seen, L.step)
             r == AlgoApplyWrites(L.vers, L.vals, LoopInputWrites)
         IN PutCheckpoint([L EXCEPT !.seen = p.seen,
                                    !.vers = r.versions,
                                    !.vals = r.chanVal])
    ELSE [L EXCEPT !.seen[INTERRUPT] =
            [c \in LoopChans |-> IF L.vers[c] # 0 THEN L.vers[c] ELSE @[c]]]

RECURSIVE WritesOf(_, _)
\* grouped.get(tid, []): the (channel, value) pairs recorded under tid, in
\* the order they were recorded
WritesOf(pw, tid) ==
    IF pw = <<>> THEN <<>>
    ELSE (IF Head(pw)[1] = tid THEN << <<Head(pw)[2], Head(pw)[3]>> >>
          ELSE <<>>)
         \o WritesOf(Tail(pw), tid)

\* mutant: the pending writes are applied in the order they were recorded
GroupedWritesAsRecorded(tsk, pw) ==
    [j \in 1..Len(pw) |-> <<pw[j][2], pw[j][3]>>]

RECURSIVE GroupedWrites(_, _)
\* writes = [(k, v) for t in self.tasks for k, v in grouped.get(t.id, [])]
GroupedWrites(tsk, pw) ==
    IF tsk = <<>> THEN <<>>
    ELSE WritesOf(pw, Head(tsk).id) \o GroupedWrites(Tail(tsk), pw)

\* {tid for tid, _, _ in self.checkpoint_pending_writes}
PendingTaskIds(pw) == {pw[i][1] : i \in 1..Len(pw)}

\* the gate of tick: as many distinct task ids recorded as there are tasks
AllTasksRecorded(tsk, pw) == Cardinality(PendingTaskIds(pw)) = Len(tsk)

\* mutant: the pending writes loaded with the checkpoint are not attached
AttachPendingNone(tsk, pw) == tsk

\* pending writes that were loaded with the checkpoint are attached to the
\* task with their id
AttachPending(tsk, pw) ==
    [i \in 1..Len(tsk) |->
        [tsk[i] EXCEPT !.writes = @ \o WritesOf(pw, tsk[i].id)]]

\* mutant: the interrupt_before policy is not consulted
ProceedNoInterruptBefore(L) ==
    /\ lstep' = L.step
    /\ cvers' = L.vers
    /\ channels' = L.vals
    /\ stream' = L.stream
    /\ saved' = L.saved
    /\ cpw' = L.cpw
    /\ lastStop' = lastStop
    /\ IF L.step > recursionLimit
       THEN /\ status' = "out_of_steps"
            /\ ret' = "false"
            /\ cseen' = L.seen
            /\ UNCHANGED <<ltasks, handed, cause>>
       ELSE LET p == AlgoPrepareNextTasks(L.vers, L.seen, L.step)
                att == AttachPending(p.tasks, L.cpw)
            IN /\ cseen' = p.seen
               /\ ltasks' = att
               /\ UNCHANGED cause
               /\ IF Len(att) = 0
                  THEN /\ status' = "done"
                       /\ ret' = "false"
                       /\ UNCHANGED handed
                  ELSE /\ status' = "pending"
                       /\ ret' = "true"
                       /\ handed' = handed + 1

\* tick from the recursion limit check on: out_of_steps, or the next tasks
\* are prepared and the loop is done, interrupted before them, or hands them
\* out by returning True
Proceed(L) ==
    /\ lstep' = L.step
    /\ cvers' = L.vers
    /\ channels' = L.vals
    /\ stream' = L.stream
    /\ saved' = L.saved
    /\ cpw' = L.cpw
    /\ lastStop' = lastStop
    /\ IF L.step > recursionLimit
       THEN /\ status' = "out_of_steps"
            /\ ret' = "false"
            /\ cseen' = L.seen
            /\ UNCHANGED <<ltasks, handed, cause>>
       ELSE LET p == AlgoPrepareNextTasks(L.vers, L.seen, L.step)
                att == AttachPending(p.tasks, L.cpw)
            IN /\ cseen' = p.seen
               /\ ltasks' = att
               /\ IF Len(att) = 0
                  THEN /\ status' = "done"
                       /\ ret' = "false"
                       /\ UNCHANGED <<handed, cause>>
                  ELSE IF ShouldInterrupt(L.vers, L.seen, interruptBefore, att)
                  THEN /\ status' = "interrupt_before"
                       /\ ret' = "false"
                       /\ cause' = {att[i].name : i \in 1..Len(att)}
                       /\ UNCHANGED handed
                  ELSE /\ status' = "pending"
                       /\ ret' = "true"
                       /\ handed' = handed + 1
                       /\ UNCHANGED cause

\* mutant: the loop stops for interrupt_after without keeping what the
\* completed tasks wrote
TickInterruptAfterFirst ==
    /\ UNCHANGED <<recursionLimit, interruptBefore, interruptAfter, prog, runs>>
    /\ UNCHANGED uvars
    /\ UNCHANGED lvars
    /\ UNCHANGED dvars
    /\ LET L0 == [vers |-> cvers, seen |-> cseen, vals |-> channels,
                  step |-> lstep, stream |-> stream, saved |-> saved,
                  cpw |-> cpw]
       IN IF status # "pending"
          THEN /\ ret' = "RuntimeError"
               /\ UNCHANGED <<linput, status, lstep, cvers, cseen, channels,
                              ltasks, cpw, stream, saved, applied, handed,
                              cause, lastStop>>
          ELSE IF linput # "done"
          THEN /\ linput' = "done"
               /\ applied' = applied
               /\ Proceed(First(L0, linput))
          ELSE IF AllTasksRecorded(ltasks, cpw)
          THEN LET writes == GroupedWrites(ltasks, cpw)
                   r == AlgoApplyWrites(cvers, channels, writes)
               IN /\ applied' = writes
                  /\ linput' = linput
                  /\ IF r.err # NoErr
                     THEN /\ ret' = r.err[1]
                          /\ cvers' = r.versions
                          /\ channels' = r.chanVal
                          /\ UNCHANGED <<status, lstep, cseen, ltasks, cpw,
                                         stream, saved, handed, cause,
                                         lastStop>>
                     ELSE LET L1 == PutCheckpoint(
                                      [L0 EXCEPT
                                         !.vers = r.versions,
                                         !.vals = r.chanVal,
                                         !.stream = @ \o MapOutputValues(
                                                           writes, r.chanVal),
                                         !.cpw = <<>>])
                          IN IF ShouldInterrupt(L1.vers, L1.seen,
                                                interruptAfter, ltasks)
                             THEN /\ status' = "interrupt_after"
                                  /\ ret' = "false"
                                  /\ UNCHANGED <<lstep, cvers, channels,
                                                 stream, saved, cpw, cseen,
                                                 ltasks, handed, cause,
                                                 lastStop>>
                             ELSE Proceed(L1)
          ELSE /\ ret' = "false"
               /\ UNCHANGED <<linput, status, lstep, cvers, cseen, channels,
                              ltasks, cpw, stream, saved, applied, handed,
                              cause, lastStop>>

\* mutant: tick does not look at the status
NotPendingNever(st) == FALSE

\* PregelLoop.tick: if self.status != "pending": raise RuntimeError
NotPending(st) == st # "pending"

\* PregelLoop.tick
Tick ==
    /\ UNCHANGED <<recursionLimit, interruptBefore, interruptAfter, prog, runs>>
    /\ UNCHANGED uvars
    /\ UNCHANGED lvars
    /\ UNCHANGED dvars
    /\ LET L0 == [vers |-> cvers, seen |-> cseen, vals |-> channels,
                  step |-> lstep, stream |-> stream, saved |-> saved,
                  cpw |-> cpw]
       IN IF NotPending(status)
          THEN /\ ret' = "RuntimeError"
               /\ UNCHANGED <<linput, status, lstep, cvers, cseen, channels,
                              ltasks, cpw, stream, saved, applied, handed,
                              cause, lastStop>>
          ELSE IF linput # "done"
          THEN /\ linput' = "done"
               /\ applied' = applied
               /\ Proceed(First(L0, linput))
          ELSE IF AllTasksRecorded(ltasks, cpw)
          THEN LET writes == GroupedWrites(ltasks, cpw)
                   r == AlgoApplyWrites(cvers, channels, writes)
               IN /\ applied' = writes
                  /\ linput' = linput
                  /\ IF r.err # NoErr
                     THEN /\ ret' = r.err[1]
                          /\ cvers' = r.versions
                          /\ channels' = r.chanVal
                          /\ UNCHANGED <<status, lstep, cseen, ltasks, cpw,
                                         stream, saved, handed, cause,
                                         lastStop>>
                     ELSE LET L1 == PutCheckpoint(
                                      [L0 EXCEPT
                                         !.vers = r.versions,
                                         !.vals = r.chanVal,
                                         !.stream = @ \o MapOutputValues(
                                                           writes, r.chanVal),
                                         !.cpw = <<>>])
                          IN IF ShouldInterrupt(L1.vers, L1.seen,
                                                interruptAfter, ltasks)
                             THEN /\ status' = "interrupt_after"
                                  /\ ret' = "false"
                                  /\ lstep' = L1.step
                                  /\ cvers' = L1.vers
                                  /\ channels' = L1.vals
                                  /\ stream' = L1.stream
                                  /\ saved' = L1.saved
                                  /\ cpw' = L1.cpw
                                  /\ UNCHANGED <<cseen, ltasks, handed,
                                                 cause, lastStop>>
                             ELSE Proceed(L1)
          ELSE /\ ret' = "false"
               /\ UNCHANGED <<linput, status, lstep, cvers, cseen, channels,
                              ltasks, cpw, stream, saved, applied, handed,
                              cause, lastStop>>

\* put_writes(task_id, writes), here with the id and the writes of the i-th
\* task of the step; a task's writes may be recorded again (a replayed
\* executor message, a retried task)
PutWrites(i) ==
    /\ status = "pending"
    /\ ret = "true"
    /\ i \in 1..Len(ltasks)
    /\ LET w == TaskWrites(ltasks[i].name, prog)
           recs == [j \in 1..Len(w) |-> <<ltasks[i].id, w[j][1], w[j][2]>>]
       IN /\ Len(cpw) + Len(w) <= MaxLoopPending
          /\ cpw' = cpw \o recs
          /\ saved' = [saved EXCEPT !.pw = @ \o recs]
    /\ UNCHANGED <<linput, status, lstep, cvers, cseen, channels, ltasks,
                   stream, recursionLimit, interruptBefore, interruptAfter,
                   prog, runs, ret, applied, handed, cause, lastStop>>
    /\ UNCHANGED uvars
    /\ UNCHANGED lvars
    /\ UNCHANGED dvars

\* put_writes with the id of a task that is not a task of the current step
PutWritesStale ==
    /\ status = "pending"
    /\ ret = "true"
    /\ StaleTaskId \notin PendingTaskIds(cpw)
    /\ Len(cpw) < MaxLoopPending
    /\ LET recs == << <<StaleTaskId, "inbox", 91>> >>
       IN /\ cpw' = cpw \o recs
          /\ saved' = [saved EXCEPT !.pw = @ \o recs]
    /\ UNCHANGED <<linput, status, lstep, cvers, cseen, channels, ltasks,
                   stream, recursionLimit, interruptBefore, interruptAfter,
                   prog, runs, ret, applied, handed, cause, lastStop>>
    /\ UNCHANGED uvars
    /\ UNCHANGED lvars
    /\ UNCHANGED dvars

\* mutant: the loop takes up the saved step again instead of the one after
EnterSameStep ==
    /\ runs < MaxRuns
    /\ ret # "init"
    /\ linput' \in {"some", "none"}
    /\ status' = "pending"
    /\ lstep' = saved.step
    /\ cvers' = saved.vers
    /\ cseen' = saved.seen
    /\ channels' = saved.vals
    /\ cpw' = saved.pw
    /\ ltasks' = <<>>
    /\ stream' = <<>>
    /\ runs' = runs + 1
    /\ ret' = "init"
    /\ applied' = <<>>
    /\ handed' = 0
    /\ lastStop' = status
    /\ UNCHANGED <<saved, recursionLimit, interruptBefore, interruptAfter,
                   prog, cause>>
    /\ UNCHANGED uvars
    /\ UNCHANGED lvars
    /\ UNCHANGED dvars

\* a new invocation on the thread: PregelLoop(input, ...).__enter__ loads
\* what the checkpointer has saved
Enter ==
    /\ runs < MaxRuns
    /\ ret # "init"
    /\ linput' \in {"some", "none"}
    /\ status' = "pending"
    /\ lstep' = saved.step + 1
    /\ cvers' = saved.vers
    /\ cseen' = saved.seen
    /\ channels' = saved.vals
    /\ cpw' = saved.pw
    /\ ltasks' = <<>>
    /\ stream' = <<>>
    /\ runs' = runs + 1
    /\ ret' = "init"
    /\ applied' = <<>>
    /\ handed' = 0
    /\ lastStop' = status
    /\ UNCHANGED <<saved, recursionLimit, interruptBefore, interruptAfter,
                   prog, cause>>
    /\ UNCHANGED uvars
    /\ UNCHANGED lvars
    /\ UNCHANGED dvars

\* the first invocation on a thread the checkpointer knows nothing about
LoopInit ==
    /\ VersionsIdle
    /\ linput \in {"some", "none"}
    /\ status = "pending"
    /\ lstep = EmptySaved.step + 1
    /\ cvers = EmptySaved.vers
    /\ cseen = EmptySaved.seen
    /\ channels = EmptySaved.vals
    /\ cpw = EmptySaved.pw
    /\ ltasks = <<>>
    /\ stream = <<>>
    /\ saved = EmptySaved
    /\ recursionLimit \in RecursionLimits
    /\ interruptBefore \in InterruptPolicies
    /\ interruptAfter \in InterruptPolicies
    /\ prog \in Programs
    /\ runs = 1
    /\ ret = "init"
    /\ applied = <<>>
    /\ handed = 0
    /\ cause = {}
    /\ lastStop = "none"
    /\ LocalIdle
    /\ DistIdle

LoopNext ==
    \/ Tick
    \/ \E i \in 1..Len(LoopProcOrder) : PutWrites(i)
    \/ PutWritesStale
    \/ Enter

SpecLoop == LoopInit /\ [][LoopNext]_vars

(***************************************************************************)
(* Properties of the local engine.                                         *)
(***************************************************************************)
Scheduled(p) == \E i \in 1..Len(tasks) : tasks[i] = p

\* the process that wrote value v (see ValOf)
Producer(v) == v \div 10

\* concurrent.futures.wait has returned and _transform moves on
WaitReturns == lpc = "running" /\ lpc' # "running"

\* C1: during a step the channels, every task's input and every read a task
\* makes are those of the step's start (the writes sent in the step are only
\* buffered); at the start of the next step the Inbox holds exactly the
\* writes the step sent to it.
StepIsolation ==
    /\ lpc = "running" =>
        /\ chanVal = startVal
        /\ \A p \in Procs :
            Scheduled(p) =>
                taskInput[p] =
                    [c \in Triggers[p] |-> ReadChannel(startVal, Kind, c)]
        /\ lastRead # <<>> =>
                lastRead[2] = ReadChannel(startVal, Kind, lastRead[1])
    /\ lpc = "prepare" => chanVal["inbox"] = ValsFor(pending, "inbox")

\* a task of the second step has read the Inbox after a write to the Inbox
\* was sent in that step, and has not seen it
StepIsolationWitness ==
    /\ lpc = "running"
    /\ step >= 1
    /\ lastRead # <<>>
    /\ \E i \in 1..Len(pending) : pending[i][1] = "inbox"
    /\ lastRead[2] # ValsFor(pending, "inbox")

VersionMonotone ==
    [][\A c \in Chans :
        /\ versions'[c] >= versions[c]
        /\ (/\ lpc # "prepare"
            /\ lpc' = "prepare"
            /\ \E i \in 1..Len(pending') : pending'[i][1] = c)
           => versions'[c] > versions[c]]_lvars

\* the Inbox was written at two boundaries
VersionMonotoneWitness ==
    /\ lpc = "prepare"
    /\ step >= 1
    /\ versions["inbox"] >= 2
    /\ \E i \in 1..Len(pending) : pending[i][1] = "inbox"

\* C6: after a step the Inbox holds the step's writes task by task in the
\* registry order of the tasks, each task's writes in the order it sent
\* them, whichever task sent or finished first (ValOf orders the values by
\* process and then by send).
RegistryOrderApplied ==
    (lpc = "prepare" /\ step >= 1) =>
        \A i, j \in 1..Len(chanVal["inbox"]) :
            i < j => chanVal["inbox"][i] < chanVal["inbox"][j]

\* C7: when the wait returns with a failed task, the step raises that
\* task's error, every task in flight is cancelled, and no channel value,
\* channel version or output changes: the writes of the step are dropped.
FailureCancelsStep ==
    [][(WaitReturns /\ Failed(tpc) # {}) =>
        /\ lpc' = "error"
        /\ err' \in {<<"task", ProcNum[p]>> : p \in Failed(tpc)}
        /\ \A p \in Procs : tpc[p] = "running" => tpc'[p] = "cancelled"
        /\ Inflight(tpc') = {}
        /\ chanVal' = startVal
        /\ versions' = startVers
        /\ outputs' = outputs]_lvars

\* a task failed while one sibling had finished, writes were sent, and
\* another sibling was still in flight
FailureCancelsStepWitness ==
    /\ lpc = "error"
    /\ err[1] = "task"
    /\ pending # <<>>
    /\ \E p \in Procs : tpc[p] = "cancelled"
    /\ \E p \in Procs : tpc[p] = "done"

\* C8: when the wait returns with tasks in flight and no failed task, the
\* step raises the timeout error naming the step, every task in flight is
\* cancelled, and no channel value, channel version or output changes.
TimeoutCancelsStep ==
    [][(WaitReturns /\ Failed(tpc) = {} /\ Inflight(tpc) # {}) =>
        /\ lpc' = "error"
        /\ err' = <<"TimeoutError", step>>
        /\ \A p \in Procs : tpc[p] = "running" => tpc'[p] = "cancelled"
        /\ Inflight(tpc') = {}
        /\ chanVal' = startVal
        /\ versions' = startVers
        /\ outputs' = outputs]_lvars

\* the second step timed out after a finished task had sent writes
TimeoutCancelsStepWitness ==
    /\ lpc = "error"
    /\ err = <<"TimeoutError", 1>>
    /\ pending # <<>>
    /\ \E p \in Procs : tpc[p] = "cancelled"
    /\ \E p \in Procs : tpc[p] = "done"

\* C9: _apply_writes given writes that include a reserved channel name
\* raises and changes no channel value and no channel version, whatever the
\* other writes are and wherever the reserved write is.
ReservedWriteRejected ==
    [][(/\ WaitReturns
        /\ Failed(tpc) = {}
        /\ Inflight(tpc) = {}
        /\ HasReservedWrite(pending)) =>
        /\ lpc' = "error"
        /\ err' = <<"ReservedChannelWrite">>
        /\ chanVal' = chanVal
        /\ versions' = versions]_lvars

\* the reserved write was rejected though it came after a write to another
\* channel
ReservedWriteRejectedWitness ==
    /\ lpc = "error"
    /\ err = <<"ReservedChannelWrite">>
    /\ Len(pending) >= 2
    /\ pending[1][1] \notin Reserved
    /\ pending[Len(pending)][1] \in Reserved

\* the step's writes are exactly two writes to channel c by two tasks
TwoWriters(c) ==
    /\ Len(pending) = 2
    /\ pending[1][1] = c
    /\ pending[2][1] = c
    /\ Producer(pending[1][2]) # Producer(pending[2][2])

\* C10: a step in which two tasks each write the LastValue channel output
\* fails with InvalidUpdate and yields nothing; the same two writes to the
\* Inbox succeed and the Inbox holds both values.
DoubleWriteLastValueVsInbox ==
    [][(WaitReturns /\ Failed(tpc) = {} /\ Inflight(tpc) = {}) =>
        /\ TwoWriters("output") =>
            /\ lpc' = "error"
            /\ err' = <<"InvalidUpdate">>
            /\ outputs' = outputs
        /\ TwoWriters("inbox") =>
            /\ lpc' = "prepare"
            /\ err' = NoErr
            /\ chanVal'["inbox"] = <<pending[1][2], pending[2][2]>>]_lvars

\* the run failed on two tasks' writes to output
DoubleWriteWitness ==
    /\ lpc = "error"
    /\ err = <<"InvalidUpdate">>
    /\ TwoWriters("output")

(***************************************************************************)
(* The step loop driven without replays or crashes: every task of a step   *)
(* records its writes once, and a new invocation is made only to resume an *)
(* interrupted run, without input.                                         *)
(***************************************************************************)
\* put_writes for a task of the step that has recorded nothing yet
PutWritesOnce(i) ==
    /\ i \in 1..Len(ltasks)
    /\ ltasks[i].id \notin PendingTaskIds(cpw)
    /\ PutWrites(i)

\* a new invocation without input after the loop stopped at an interrupt
Resume ==
    /\ status \in {"interrupt_before", "interrupt_after"}
    /\ Enter
    /\ linput' = "none"

ResumeNext ==
    \/ Tick
    \/ \E i \in 1..Len(LoopProcOrder) : PutWritesOnce(i)
    \/ Resume

SpecResume == LoopInit /\ [][ResumeNext]_vars

RECURSIVE StepWrites(_, _)
\* the writes of a step's tasks in task order, each task recording once
StepWrites(tsk, pg) ==
    IF tsk = <<>> THEN <<>>
    ELSE TaskWrites(Head(tsk).name, pg) \o StepWrites(Tail(tsk), pg)

RECURSIVE RunToEnd(_, _, _)
\* the driver `while loop.tick(): run the tasks` with no interrupt policy,
\* from the recursion limit check on: the state the loop stops in
RunToEnd(L, pg, lim) ==
    IF L.step > lim
    THEN [status |-> "out_of_steps", vals |-> L.vals, vers |-> L.vers,
          step |-> L.step]
    ELSE LET p == AlgoPrepareNextTasks(L.vers, L.seen, L.step)
         IN IF Len(p.tasks) = 0
            THEN [status |-> "done", vals |-> L.vals, vers |-> L.vers,
                  step |-> L.step]
            ELSE LET r == AlgoApplyWrites(L.vers, L.vals,
                                          StepWrites(p.tasks, pg))
                 IN RunToEnd(PutCheckpoint([L EXCEPT !.seen = p.seen,
                                                     !.vers = r.versions,
                                                     !.vals = r.chanVal]),
                             pg, lim)

\* the state a first invocation with input stops in when nothing interrupts
UninterruptedEnd(pg, lim) ==
    RunToEnd(First([vers |-> EmptySaved.vers, seen |-> EmptySaved.seen,
                    vals |-> EmptySaved.vals, step |-> EmptySaved.step + 1,
                    stream |-> <<>>, saved |-> EmptySaved, cpw |-> <<>>],
                   "some"),
             pg, lim)

(***************************************************************************)
(* The distributed mode: KafkaExecutor                                     *)
(* (src/libs/scheduler-kafka/langgraph/scheduler/kafka/executor.py), the   *)
(* orchestrator worker that runs one tick of a PregelLoop per message, and *)
(* the bus between them.                                                   *)
(***************************************************************************)
\* the reserved channel a task's error is written to
ERROR == "__error__"

\* the write of TaskNotFound() under ERROR
TaskNotFoundWrite == <<ERROR, 404>>

\* the task id of a record put_writes is called for without a task id
NoTaskId == <<-1, "none">>

\* MessageToOrchestrator(input=None, config=msg["config"])
WakeUp == [input |-> "none"]

\* a MessageToExecutor that no tick of the thread's step loop produced: the
\* task of c for step 0, where c is not triggered
StrayMessage == [id |-> TaskId(0, "c"), name |-> "c", step |-> 0]

\* prepare_single_task(path, id, checkpoint=..., step=...): the task is found
\* iff its process is triggered in the checkpoint and the id is the one the
\* checkpoint's next step gives it
PrepareSingleTask(msg, sv) ==
    /\ msg.name \in LoopProcs
    /\ AlgoTriggered(msg.name, sv.vers, sv.seen)
    /\ msg.step = sv.step + 1
    /\ msg.id = TaskId(sv.step + 1, msg.name)

\* the records a put_writes call stores for a task id
WriteRecords(tid, writes) ==
    [j \in 1..Len(writes) |-> <<tid, writes[j][1], writes[j][2]>>]

\* mutant: the executor also saves the checkpoint in which
\* prepare_single_task has marked the task's triggers as seen
ExecutorPutWritesAndSeen(sv, tid, writes) ==
    [sv EXCEPT !.pw = @ \o WriteRecords(tid, writes),
               !.seen[tid[2]] = [c \in LoopChans |->
                                   IF c \in LoopTriggers[tid[2]]
                                   THEN sv.vers[c] ELSE @[c]]]

\* mutant: the writes are handed to the background executor and each()
\* goes on without their being stored
ExecutorPutWritesPending(sv, tid, writes) == sv

\* KafkaExecutor._put_writes: checkpointer.aput_writes(config, writes,
\* task_id) adds the writes to the pending writes of the saved checkpoint
ExecutorPutWrites(sv, tid, writes) ==
    [sv EXCEPT !.pw = @ \o WriteRecords(tid, writes)]

\* what PregelRunner.atick does with the one task: it runs to the end and
\* its writes are put, or it fails and the runner surfaces its error
RunnerOutcomes(sv, msg, pg) ==
    { [state |-> "ok",
       saved |-> ExecutorPutWrites(sv, msg.id, TaskWrites(msg.name, pg))],
      [state |-> "raised", saved |-> sv] }

\* what `await checkpointer.put_writes(config, [(ERROR, TaskNotFound())])`
\* does, a call without the task_id of put_writes(config, writes, task_id)
\* and of a method that is not a coroutine: the call raises TypeError; or
\* the write is stored under no task id and awaiting the result raises; or
\* the write is stored and the await returns
NotFoundOutcomes(sv) ==
    { [state |-> "raised", saved |-> sv],
      [state |-> "raised",
       saved |-> ExecutorPutWrites(sv, NoTaskId, <<TaskNotFoundWrite>>)],
      [state |-> "notfound",
       saved |-> ExecutorPutWrites(sv, NoTaskId, <<TaskNotFoundWrite>>)] }

\* the states of each() in which it has returned
Returned == {"ok", "notfound"}

\* the states of each() in which it has raised
Raised == {"nocheckpoint", "raised"}

\* __anext__, lines 70-76: getmany hands over the next messages of the
\* topic, at most batch_max_n of them
ExecFetch ==
    /\ epc = "idle"
    /\ \E n \in 1..BatchMaxN :
        /\ fetchPos + n - 1 <= Len(execTopic)
        /\ batch' = fetchPos..(fetchPos + n - 1)
        /\ fetchPos' = fetchPos + n
        /\ mstate' = [i \in DOMAIN mstate |->
                        IF i \in fetchPos..(fetchPos + n - 1)
                        THEN "fetched" ELSE mstate[i]]
    /\ epc' = "gather"
    /\ UNCHANGED <<execTopic, commitPos, orchTopic, omsg, consumed, emitted>>
    /\ UNCHANGED uvars
    /\ UNCHANGED lvars
    /\ UNCHANGED gvars

\* each(msg) for the message at offset i, one of the coroutines of
\* asyncio.gather: an exception it raises is raised out of __anext__ at
\* once and ends the worker
ExecEach(i) ==
    /\ epc = "gather"
    /\ i \in batch
    /\ mstate[i] = "fetched"
    /\ \E o \in (IF saved = EmptySaved
                 THEN {[state |-> "nocheckpoint", saved |-> saved]}
                 ELSE IF PrepareSingleTask(execTopic[i], saved)
                 THEN RunnerOutcomes(saved, execTopic[i], prog)
                 ELSE NotFoundOutcomes(saved)) :
        /\ Len(o.saved.pw) <= MaxLoopPending
        /\ saved' = o.saved
        /\ mstate' = [mstate EXCEPT ![i] = o.state]
        /\ epc' = IF o.state \in Raised THEN "raised" ELSE epc
        /\ orchTopic' = IF o.state \in Returned
                        THEN Append(orchTopic, WakeUp) ELSE orchTopic
    /\ UNCHANGED <<execTopic, fetchPos, commitPos, batch, omsg, consumed,
                   emitted>>
    /\ UNCHANGED <<linput, status, lstep, cvers, cseen, channels, ltasks, cpw,
                   stream, recursionLimit, interruptBefore, interruptAfter,
                   prog, runs, ret, applied, handed, cause, lastStop>>
    /\ UNCHANGED uvars
    /\ UNCHANGED lvars

\* mutant: the offsets are committed as soon as the batch is fetched
ExecCommitEarly ==
    /\ epc = "gather"
    /\ commitPos' = fetchPos
    /\ batch' = {}
    /\ epc' = "idle"
    /\ UNCHANGED <<execTopic, fetchPos, mstate, orchTopic, omsg, consumed,
                   emitted>>
    /\ UNCHANGED uvars
    /\ UNCHANGED lvars
    /\ UNCHANGED gvars

\* mutant: the offsets are committed whatever each() did (a commit in a
\* finally clause)
ExecCommitAlways ==
    /\ epc \in {"gather", "raised"}
    /\ \A i \in batch : mstate[i] # "fetched"
    /\ commitPos' = fetchPos
    /\ batch' = {}
    /\ epc' = "idle"
    /\ UNCHANGED <<execTopic, fetchPos, mstate, orchTopic, omsg, consumed,
                   emitted>>
    /\ UNCHANGED uvars
    /\ UNCHANGED lvars
    /\ UNCHANGED gvars

\* __anext__, line 82: every coroutine of the batch has returned and the
\* consumer commits its position
ExecCommit ==
    /\ epc = "gather"
    /\ \A i \in batch : mstate[i] \in Returned
    /\ commitPos' = fetchPos
    /\ batch' = {}
    /\ epc' = "idle"
    /\ UNCHANGED <<execTopic, fetchPos, mstate, orchTopic, omsg, consumed,
                   emitted>>
    /\ UNCHANGED uvars
    /\ UNCHANGED lvars
    /\ UNCHANGED gvars

\* the worker that __anext__ raised out of is started again: its new
\* consumer (auto commit off) starts from the offset the group committed
ExecRestart ==
    /\ epc = "raised"
    /\ fetchPos' = commitPos
    /\ batch' = {}
    /\ mstate' = [i \in DOMAIN mstate |->
                    IF i >= commitPos THEN "queued" ELSE mstate[i]]
    /\ epc' = "idle"
    /\ UNCHANGED <<execTopic, commitPos, orchTopic, omsg, consumed, emitted>>
    /\ UNCHANGED uvars
    /\ UNCHANGED lvars
    /\ UNCHANGED gvars

\* the orchestrator takes the next message of its topic and enters a step
\* loop for the message's run, with the message's input: __enter__ loads
\* what the checkpointer has saved
OrchEnterUpTo(cap) ==
    /\ emitted = consumed
    /\ consumed < cap
    /\ orchTopic # <<>>
    /\ omsg' = Head(orchTopic)
    /\ orchTopic' = Tail(orchTopic)
    /\ consumed' = consumed + 1
    /\ linput' = Head(orchTopic).input
    /\ status' = "pending"
    /\ lstep' = saved.step + 1
    /\ cvers' = saved.vers
    /\ cseen' = saved.seen
    /\ channels' = saved.vals
    /\ cpw' = saved.pw
    /\ ltasks' = <<>>
    /\ stream' = <<>>
    /\ runs' = runs + 1
    /\ ret' = "init"
    /\ applied' = <<>>
    /\ handed' = 0
    /\ lastStop' = status
    /\ UNCHANGED <<saved, recursionLimit, interruptBefore, interruptAfter,
                   prog, cause>>
    /\ UNCHANGED <<execTopic, fetchPos, commitPos, batch, mstate, epc,
                   emitted>>
    /\ UNCHANGED uvars
    /\ UNCHANGED lvars

\* the orchestrator consumes at most MaxRuns messages
OrchEnter == OrchEnterUpTo(MaxRuns)

\* it runs one tick of that loop
OrchTick ==
    /\ emitted < consumed
    /\ ret = "init"
    /\ Tick

\* the messages for the tasks a tick handed out: one per task that has no
\* writes attached
TaskMessages(tsk, stp) ==
    LET todo == SelectSeq(tsk, LAMBDA t : t.writes = <<>>)
    IN [i \in 1..Len(todo) |->
          [id |-> todo[i].id, name |-> todo[i].name, step |-> stp]]

\* if the tick returned True it emits one MessageToExecutor per task
OrchEmit ==
    /\ emitted < consumed
    /\ ret # "init"
    /\ LET new == IF ret = "true" THEN TaskMessages(ltasks, lstep) ELSE <<>>
       IN /\ execTopic' = execTopic \o new
          /\ mstate' = mstate \o [i \in 1..Len(new) |-> "queued"]
    /\ emitted' = emitted + 1
    /\ UNCHANGED <<fetchPos, commitPos, batch, epc, orchTopic, omsg,
                   consumed>>
    /\ UNCHANGED uvars
    /\ UNCHANGED lvars
    /\ UNCHANGED gvars

\* a client has produced the run's first message, with input; the executor
\* topic may hold a stale message; nothing is saved yet
DistInit ==
    /\ VersionsIdle
    /\ execTopic \in {<<>>, <<StrayMessage>>}
    /\ mstate = [i \in 1..Len(execTopic) |-> "queued"]
    /\ fetchPos = 1
    /\ commitPos = 1
    /\ batch = {}
    /\ epc = "idle"
    /\ orchTopic = << [input |-> "some"] >>
    /\ omsg = WakeUp
    /\ consumed = 0
    /\ emitted = 0
    /\ linput = "done"
    /\ status = "done"
    /\ lstep = EmptySaved.step + 1
    /\ cvers = EmptySaved.vers
    /\ cseen = EmptySaved.seen
    /\ channels = EmptySaved.vals
    /\ cpw = <<>>
    /\ ltasks = <<>>
    /\ stream = <<>>
    /\ saved = EmptySaved
    /\ recursionLimit \in {n \in RecursionLimits : n + 1 \notin RecursionLimits}
    /\ interruptBefore = {}
    /\ interruptAfter = {}
    /\ prog = "chain"
    /\ runs = 0
    /\ ret = "none"
    /\ applied = <<>>
    /\ handed = 0
    /\ cause = {}
    /\ lastStop = "none"
    /\ LocalIdle

DistNext ==
    \/ ExecFetch
    \/ \E i \in 1..Len(execTopic) : ExecEach(i)
    \/ ExecCommit
    \/ ExecRestart
    \/ OrchEnter
    \/ OrchTick
    \/ OrchEmit

SpecDist == DistInit /\ [][DistNext]_vars

(***************************************************************************)
(* A run of the distributed mode without failures: no stale message, every *)
(* task runs to the end, and the orchestrator consumes the input and       *)
(* MaxRuns wake-ups.                                                       *)
(***************************************************************************)
FanoutInit ==
    /\ VersionsIdle
    /\ DistInit
    /\ execTopic = <<>>

\* each() for a task that runs to the end
EachOk(i) ==
    /\ ExecEach(i)
    /\ mstate'[i] = "ok"

FanoutEnter == OrchEnterUpTo(MaxRuns + 1)

FanoutNext ==
    \/ ExecFetch
    \/ \E i \in 1..Len(execTopic) : EachOk(i)
    \/ ExecCommit
    \/ FanoutEnter
    \/ OrchTick
    \/ OrchEmit

SpecFanout == FanoutInit /\ [][FanoutNext]_vars

(***************************************************************************)
(* get_new_channel_versions (langgraph/pregel/utils.py), called on every   *)
(* pair of version maps with integer versions.                             *)
(***************************************************************************)
\* the channels the version maps may have an entry for
VersionKeys == {"input", "inbox"}

\* version_type(): int() for integer versions
NullVersion == 0

\* ChannelVersions with integer versions: a dict from some of the channels
\* to versions
VersionMaps ==
    UNION { [ks -> 0..MaxVersion] : ks \in SUBSET VersionKeys }

\* dict.get(k, default)
DictGet(d, k, default) == IF k \in DOMAIN d THEN d[k] ELSE default

\* get_new_channel_versions
GetNewChannelVersions(previous, current) ==
    IF DOMAIN previous # {}
    THEN LET null_version == NullVersion
             newer == {k \in DOMAIN current :
                          current[k] > DictGet(previous, k, null_version)}
         IN [k \in newer |-> current[k]]
    ELSE current

VersionsInit ==
    /\ previous_versions \in VersionMaps
    /\ current_versions \in VersionMaps
    /\ new_versions = <<>>
    /\ LocalIdle
    /\ LoopIdle
    /\ DistIdle

\* new_versions = get_new_channel_versions(previous_versions,
\* current_versions)
GetNewChannelVersionsCall ==
    /\ new_versions = <<>>
    /\ new_versions' = <<GetNewChannelVersions(previous_versions,
                                               current_versions)>>
    /\ UNCHANGED <<previous_versions, current_versions>>
    /\ UNCHANGED lvars
    /\ UNCHANGED gvars
    /\ UNCHANGED dvars

VersionsNext == GetNewChannelVersionsCall

SpecVersions == VersionsInit /\ [][VersionsNext]_vars

(***************************************************************************)
(* Properties of the checkpointed step loop.                               *)
(***************************************************************************)
\* no pair occurs twice in a sequence
NoDuplicates(sq) ==
    \A i \in 1..Len(sq), j \in 1..Len(sq) : i # j => sq[i] # sq[j]

\* C2: the writes recorded for a task id contribute to apply_writes at most
\* once: every node sends distinct values, so the writes list a tick hands to
\* apply_writes holds no (channel, value) pair twice, however often
\* put_writes recorded the task's writes
AtMostOnceApply == NoDuplicates(applied)

\* C5: a run of the step loop hands out at most recursion_limit supersteps:
\* tick returns True at most recursion_limit times within one loop
BoundedSteps == handed <= recursionLimit

\* a call of tick that got as far as prepare_next_tasks
TickPrepared ==
    /\ Tick
    /\ status = "pending"
    /\ (status' \in {"done", "interrupt_before"} \/ ret' = "true")

\* the tick is the first of an invocation without input and process n was
\* among the tasks the thread's last interrupt_before stopped at
ResumesPast(n) == linput = "none" /\ n \in cause

ResumeTick ==
    /\ Tick
    /\ status = "pending"
    /\ linput = "none"
    /\ lastStop = "interrupt_before"

\* C12: the first tick of a no-input invocation that follows a stop with
\* interrupt_before records the version of every versioned channel in
\* versions_seen[INTERRUPT], does not stop again, and returns True with the
\* tasks the interrupt stopped at prepared
ResumePassesInterrupt ==
    [][ResumeTick
       => (/\ \A c \in LoopChans :
                cvers'[c] # 0 => cseen'[INTERRUPT][c] = cvers'[c]
           /\ status' = "pending"
           /\ ret' = "true"
           /\ cause # {}
           /\ \A n \in cause : \E i \in 1..Len(ltasks') :
                                  ltasks'[i].name = n)]_vars

\* the resumed loop has handed out the task of c, named in interrupt_before
ResumePassesInterruptWitness ==
    /\ lastStop = "interrupt_before"
    /\ ret = "true"
    /\ handed = 1
    /\ cpw = <<>>
    /\ \E i \in 1..Len(ltasks) : ltasks[i].name \in interruptBefore
    /\ cvers["inbox"] > 0
    /\ cseen[INTERRUPT]["inbox"] = cvers["inbox"]

\* C13: a run that was interrupted and resumed without input stops in the
\* same status, with the same channel values, channel versions and step, as
\* the run made from the same input with nothing interrupting it
IdempotentResume ==
    (runs > 1 /\ status \in {"done", "out_of_steps"})
    => [status |-> status, vals |-> channels, vers |-> cvers, step |-> lstep]
       = UninterruptedEnd(prog, recursionLimit)

\* a resumed run has come to its end after the task of c ran
IdempotentResumeWitness ==
    /\ runs > 1
    /\ lastStop \in {"interrupt_before", "interrupt_after"}
    /\ status \in {"done", "out_of_steps"}
    /\ cvers["inbox"] > 0
    /\ cvers["input"] + cvers["output"] > 1

\* every task of the step has writes recorded under its id, nothing else
\* is recorded, and apply_writes takes them
StepCompleted ==
    /\ status = "pending"
    /\ linput = "done"
    /\ AllTasksRecorded(ltasks, cpw)
    /\ \A i \in 1..Len(ltasks) : ltasks[i].id \in PendingTaskIds(cpw)
    /\ AlgoApplyWrites(cvers, channels, GroupedWrites(ltasks, cpw)).err = NoErr

\* C14: when the tasks just completed include a process named in
\* interrupt_after, the tick applies their writes, puts the checkpoint of the
\* step (clearing the pending writes and advancing step) and stops with
\* status interrupt_after, returning False, with no further task prepared
InterruptAfterStops ==
    [][(/\ Tick
        /\ StepCompleted
        /\ \E i \in 1..Len(ltasks) : ltasks[i].name \in interruptAfter)
       => (/\ status' = "interrupt_after"
           /\ ret' = "false"
           /\ cvers' = AlgoApplyWrites(cvers, channels,
                                       GroupedWrites(ltasks, cpw)).versions
           /\ channels' = AlgoApplyWrites(cvers, channels,
                                          GroupedWrites(ltasks, cpw)).chanVal
           /\ saved'.vers = cvers'
           /\ saved'.vals = channels'
           /\ saved'.step = lstep
           /\ lstep' = lstep + 1
           /\ cpw' = <<>>
           /\ ltasks' = ltasks
           /\ cseen' = cseen
           /\ handed' = handed)]_vars

\* the loop stopped after the task of c, whose write is in the channels and
\* in the saved checkpoint
InterruptAfterStopsWitness ==
    /\ status = "interrupt_after"
    /\ ret = "false"
    /\ \E i \in 1..Len(ltasks) : ltasks[i].name \in interruptAfter
    /\ applied # <<>>
    /\ cpw = <<>>
    /\ saved.vals = channels
    /\ channels["input"] = <<31>> \/ channels["output"] = <<31>>

(***************************************************************************)
(* Properties of the distributed mode.                                     *)
(***************************************************************************)
\* s is the beginning of t
IsPrefix(s, t) == Len(s) <= Len(t) /\ SubSeq(t, 1, Len(s)) = s

\* some each() takes its step
EachStep == \E i \in 1..Len(execTopic) : ExecEach(i)

\* C16: processing a MessageToExecutor only appends pending writes; the
\* saved checkpoint keeps its step (which stands for its id), its channel
\* values, its channel versions and its versions_seen
ExecutorOnlyAppends ==
    [][EachStep =>
         /\ saved'.step = saved.step
         /\ saved'.vals = saved.vals
         /\ saved'.vers = saved.vers
         /\ saved'.seen = saved.seen
         /\ IsPrefix(saved.pw, saved'.pw)]_vars

\* the executor has run a task and the task's writes are pending in the
\* saved checkpoint
ExecutorOnlyAppendsWitness ==
    \E i \in 1..Len(execTopic) :
        /\ mstate[i] = "ok"
        /\ execTopic[i].id \in PendingTaskIds(saved.pw)
        /\ saved.step > EmptySaved.step

\* C20: each() for a message whose config has no saved checkpoint fails with
\* checkpoint not found, persists no write and sends no orchestrator
\* message, and the offsets of its batch are not committed
NoCheckpointFails ==
    [][/\ \A i \in 1..Len(execTopic) :
            (saved = EmptySaved /\ ExecEach(i)) =>
                /\ mstate'[i] = "nocheckpoint"
                /\ saved' = saved
                /\ orchTopic' = orchTopic
                /\ commitPos' = commitPos
       /\ (\E i \in batch : mstate[i] = "nocheckpoint") =>
                commitPos' = commitPos]_vars

\* each() has failed on a message fetched before any checkpoint was saved
NoCheckpointFailsWitness ==
    \E i \in batch :
        /\ mstate[i] = "nocheckpoint"
        /\ epc = "raised"
        /\ commitPos <= i
        /\ orchTopic = << [input |-> "some"] >>

\* each() for the message at offset i finds a checkpoint and its task
TaskFound(i) ==
    /\ saved # EmptySaved
    /\ PrepareSingleTask(execTopic[i], saved)

\* each() for the message at offset i finds a checkpoint and no task
TaskMissing(i) ==
    /\ saved # EmptySaved
    /\ ~PrepareSingleTask(execTopic[i], saved)

\* C17: for every MessageToExecutor whose task the executor runs, each()
\* sends exactly one MessageToOrchestrator with input None once the task has
\* completed, whether it succeeded or failed
WakeUpAfterTask ==
    [][\A i \in 1..Len(execTopic) :
          (TaskFound(i) /\ ExecEach(i)) =>
              orchTopic' = Append(orchTopic, WakeUp)]_vars

\* C18: when prepare_single_task finds no task for the message, each()
\* persists the single write (ERROR, TaskNotFound) and nothing else, and
\* sends the wake-up to the orchestrator
TaskNotFoundRecorded ==
    [][\A i \in 1..Len(execTopic) :
          (TaskMissing(i) /\ ExecEach(i)) =>
              /\ Len(saved'.pw) = Len(saved.pw) + 1
              /\ IsPrefix(saved.pw, saved'.pw)
              /\ saved'.pw[Len(saved'.pw)][2] = TaskNotFoundWrite[1]
              /\ saved'.pw[Len(saved'.pw)][3] = TaskNotFoundWrite[2]
              /\ orchTopic' = Append(orchTopic, WakeUp)]_vars

\* the orchestrator's loop has ticked for a wake-up message
WokenTickDone ==
    /\ consumed > 0
    /\ omsg = WakeUp
    /\ ret \notin {"init", "none"}

\* the pending writes the loop has loaded hold a TaskNotFound under ERROR
TaskNotFoundLoaded ==
    \E j \in 1..Len(cpw) : <<cpw[j][2], cpw[j][3]>> = TaskNotFoundWrite

ObservedAllWrites ==
    /\ ltasks # <<>>
    /\ \A k \in 1..Len(ltasks) : ltasks[k].writes # <<>>

\* C15: a run does not stay pending: a tick of the orchestrator's loop that
\* observes pending writes for every task scheduled in the current step
\* advances the checkpoint, or the run has ended with status error
ProgressOnObservedWrites ==
    (WokenTickDone /\ ObservedAllWrites) =>
        \/ saved.step > lstep - 1
        \/ applied # <<>>
        \/ status = "error"

\* the wake-ups sent so far: every message the orchestrator topic has held
\* but the client's first one
WakeUpsSent == consumed + Len(orchTopic) - 1

\* C21: the offsets of a batch are committed only after each() has returned
\* for every message of the batch, with the task's writes persisted and the
\* wake-up sent; once each() has raised for a message of the batch nothing
\* is committed and the batch stays at or above the committed offset
CommitAfterWholeBatch ==
    [][/\ commitPos' # commitPos =>
            /\ \A i \in commitPos..(commitPos' - 1) :
                  /\ mstate[i] \in Returned
                  /\ mstate[i] = "ok" =>
                         execTopic[i].id \in PendingTaskIds(saved.pw)
            /\ commitPos' - 1 <= WakeUpsSent
       /\ (\E i \in batch : mstate[i] \in Raised) =>
            /\ commitPos' = commitPos
            /\ \A i \in batch : i >= commitPos]_vars

\* a batch of two task messages has been committed and a later batch has
\* failed
CommitAfterWholeBatchWitness ==
    /\ commitPos > BatchMaxN
    /\ mstate[commitPos - 1] = "ok"
    /\ mstate[commitPos - 2] = "ok"
    /\ epc = "raised"
    /\ \E i \in batch : mstate[i] \in Raised

\* the statuses in which a step loop has ended the run
Terminal == {"done", "interrupt_before", "interrupt_after", "out_of_steps"}

\* both topics are consumed to the end and both workers are idle
Drained ==
    /\ orchTopic = <<>>
    /\ emitted = consumed
    /\ consumed > 0
    /\ epc = "idle"
    /\ fetchPos > Len(execTopic)
    /\ commitPos = fetchPos

\* C22: a run started by one input message and executed without failures
\* ends: once every message is consumed the run has terminated, and the
\* orchestrator has consumed one message more than the executor
FailureFreeRunCounts ==
    Drained =>
        /\ status \in Terminal
        /\ consumed = Len(execTopic) + 1

WroteOutput == \E i \in 1..Len(pending) : pending[i][1] = "output"

\* the step ends: its writes are applied and the loop goes on
StepEnds == lpc = "running" /\ lpc' = "prepare"

\* C24: an output is yielded at the end of a step iff a task of the step
\* wrote to the output channel; it is the channel's value after the step and
\* follows the outputs of the earlier steps; a run in which the output
\* channel is never written ends with nothing yielded
OutputIffWritten ==
    [][/\ outputs' # outputs => (StepEnds /\ WroteOutput)
       /\ (StepEnds /\ WroteOutput) =>
              outputs' = Append(outputs, ReadChannel(chanVal', Kind, "output"))
       /\ (lpc' = "done" /\ versions'["output"] = 0) => outputs' = <<>>]_vars

\* the first step has yielded an output, and the second has ended with
\* writes but none to the output channel and has yielded nothing
OutputIffWrittenWitness ==
    /\ Len(outputs) = 1
    /\ step = 2
    /\ lpc = "prepare"
    /\ pending # <<>>
    /\ ~WroteOutput

PipelineOnceEach ==
    [][/\ (lpc = "prepare" /\ lpc' = "running") => tasks' = <<step + 1>>
       /\ step' <= limit'
       /\ (lpc' = "done" /\ limit' = PipeLen) =>
             /\ step' = PipeLen
             /\ outputs' = << <<chanVal'["input"][1] + PipeLen>> >>]_vars

\* the pipeline invoked with recursion_limit = PipeLen has ended, after
\* PipeLen supersteps, and has yielded an output
PipelineOnceEachWitness ==
    /\ lpc = "done"
    /\ limit = PipeLen
    /\ step = PipeLen
    /\ outputs # <<>>
(***************************************************************************)
(* C27: the writes of a step are applied atomically: when _apply_writes    *)
(* returns, every channel the step wrote to has been updated and has had   *)
(* its version advanced (by one); when a channel rejects its update and    *)
(* _apply_writes raises, every channel value and every channel version is  *)
(* as it was before the call.                                              *)
(***************************************************************************)
AtomicApplyWrites ==
    [][/\ (lpc = "running" /\ lpc' = "prepare") =>
             \A i \in 1..Len(pending) :
                 versions'[pending[i][1]] = versions[pending[i][1]] + 1
       /\ (lpc = "running" /\ lpc' = "error") =>
             (chanVal' = chanVal /\ versions' = versions)]_vars


(***************************************************************************)
(* C28: a tick applies the pending writes and puts a source=loop           *)
(* checkpoint only when every task of the current step has a pending       *)
(* write recorded under its own task id; writes recorded under another id  *)
(* do not stand in for a task that has recorded nothing.                   *)
(***************************************************************************)
\* the task with id tid has recorded a write
Recorded(tid, pw) == \E j \in 1..Len(pw) : pw[j][1] = tid

\* this step puts the source=loop checkpoint: the input was taken before
\* and the checkpointer holds a checkpoint of a new step
PutsLoopCheckpoint == linput = "done" /\ saved'.step # saved.step

GateNeedsEveryTask ==
    [][PutsLoopCheckpoint =>
          \A i \in 1..Len(ltasks) : Recorded(ltasks[i].id, cpw)]_vars


(***************************************************************************)
(* C29: when a tick applies a step, the list of writes it passes to        *)
(* apply_writes holds exactly the pending writes recorded under the id of  *)
(* a current task, those of an earlier task before those of a later one    *)
(* and those of one task in the order they were recorded, whatever the     *)
(* order the tasks' put_writes calls were made in; and the list of pending *)
(* writes is empty after the tick.                                         *)
(***************************************************************************)
\* the position in tsk of the task with id tid
TaskIndex(tsk, tid) == CHOOSE i \in 1..Len(tsk) : tsk[i].id = tid

\* the pending writes recorded under the id of a task of tsk, as recorded
OfCurrentTasks(tsk, pw) ==
    SelectSeq(pw, LAMBDA w : \E i \in 1..Len(tsk) : tsk[i].id = w[1])

\* out lists the (channel, value) pairs of the records sel, each once,
\* sorted by task position and, for one task, in the order of sel
SortedByTask(out, sel, tsk) ==
    /\ Len(out) = Len(sel)
    /\ \E f \in [1..Len(sel) -> 1..Len(sel)] :
          /\ \A j, k \in 1..Len(sel) : j # k => f[j] # f[k]
          /\ \A j \in 1..Len(sel) : out[j] = <<sel[f[j]][2], sel[f[j]][3]>>
          /\ \A j, k \in 1..Len(sel) :
                j < k =>
                    \/ TaskIndex(tsk, sel[f[j]][1]) < TaskIndex(tsk, sel[f[k]][1])
                    \/ /\ sel[f[j]][1] = sel[f[k]][1]
                       /\ f[j] < f[k]

WritesInTaskOrder ==
    [][PutsLoopCheckpoint =>
          /\ SortedByTask(applied', OfCurrentTasks(ltasks, cpw), ltasks)
          /\ cpw' = <<>>]_vars

\* a step in which two tasks recorded writes has been applied and nothing
\* is pending any more
WritesInTaskOrderWitness ==
    /\ linput = "done"
    /\ status = "pending"
    /\ applied = TaskWrites("a", prog) \o TaskWrites("b", prog)
    /\ cpw = <<>>
    /\ saved.step = 0


(***************************************************************************)
(* C30: a tick that finds no task to prepare stops the loop with status    *)
(* done (so a tick that returns True, or stops for interrupt_before, has   *)
(* tasks); done is set only when no process is triggered; and a tick that  *)
(* applies a step after which no process is triggered ends the run with    *)
(* done (unless it stops for interrupt_after, which leaves the run to be   *)
(* resumed).                                                               *)
(***************************************************************************)
\* no process is triggered by the versions the step leaves, given what the
\* processes had seen before the step's tick
NothingTriggered == \A n \in LoopProcs : ~AlgoTriggered(n, cvers', cseen)

DoneWhenNothingTriggered ==
    [][/\ (status' = "interrupt_before" \/ ret' = "true") => ltasks' # <<>>
       /\ (status = "pending" /\ status' = "done") => NothingTriggered
       /\ (PutsLoopCheckpoint /\ status' # "interrupt_after"
              /\ NothingTriggered) => status' = "done"]_vars


(***************************************************************************)
(* C31: while the tasks of step s (counted from 0) of a run with           *)
(* recursion limit L are running, a read of the reserved channel           *)
(* is_last_step gives true if s = L - 1 and false otherwise.               *)
(***************************************************************************)
IsLastStepAtLimit ==
    lpc = "running" =>
        ReadChannel(chanVal, Kind, "is_last_step")
            = <<IF step = limit - 1 THEN 1 ELSE 0>>

\* the tasks of the second and last step of a run with limit 2 are running
\* and is_last_step reads true
IsLastStepAtLimitWitness ==
    /\ lpc = "running"
    /\ limit = 2
    /\ step = 1
    /\ ReadChannel(chanVal, Kind, "is_last_step") = <<1>>


(***************************************************************************)
(* C32: every channel is updated at every step boundary, with an empty     *)
(* update when it received no write, so the Inbox holds during a step      *)
(* exactly the values written to it in the step before (for the first      *)
(* step: with the input), in the order they were applied, and nothing      *)
(* written earlier.                                                        *)
(***************************************************************************)
\* the values the writes pw give the channel c, in the order of pw
WrittenTo(pw, c) ==
    LET sel == SelectSeq(pw, LAMBDA w : w[1] = c)
    IN [i \in 1..Len(sel) |-> sel[i][2]]

InboxHoldsLastStep ==
    [][/\ (lpc = "init" /\ lpc' = "prepare") =>
             chanVal'["inbox"] = WrittenTo(pending', "inbox")
       /\ (lpc = "running" /\ lpc' = "prepare") =>
             chanVal'["inbox"] = WrittenTo(pending, "inbox")
       /\ lpc' = "running" => chanVal'["inbox"] = chanVal["inbox"]]_vars

\* the tasks of the second step are running and read an empty Inbox, which
\* was written once, with the input, and held a value during the first step
InboxHoldsLastStepWitness ==
    /\ lpc = "running"
    /\ step = 1
    /\ versions["inbox"] = 1
    /\ chanVal["inbox"] = <<>>
    /\ lastRead = <<"inbox", <<>> >>


(***************************************************************************)
(* C33: a process that is triggered is not scheduled in a step at whose    *)
(* start one of its trigger channels is empty, the read of that channel    *)
(* raising EmptyChannelError.  (Every channel a process of the graph reads *)
(* is one of its triggers, as subscribe_to makes them.)                    *)
(***************************************************************************)
EmptyTriggerNotScheduled ==
    lpc = "running" =>
        \A p \in Procs :
            Scheduled(p) =>
                \A c \in Triggers[p] : ~ChannelEmpty(Kind[c], startVal[c])


(***************************************************************************)
(* C34: a process does not run twice on the same versions of its trigger   *)
(* channels: a process that was scheduled in a step in which no write went *)
(* to any of its trigger channels is not scheduled in the next step.       *)
(***************************************************************************)
\* no write of pw goes to a channel of cs
NoWriteTo(cs, pw) == \A i \in 1..Len(pw) : pw[i][1] \notin cs

NoRefireOnSeenVersions ==
    [][(lpc = "prepare" /\ lpc' = "running") =>
          \A p \in Procs :
              (Scheduled(p) /\ NoWriteTo(Triggers[p], pending)) =>
                  \A i \in 1..Len(tasks') : tasks'[i] # p]_vars

\* the second step runs without process one, which ran in the first step
\* on the only version the input channel ever had
NoRefireOnSeenVersionsWitness ==
    /\ lpc = "running"
    /\ step = 1
    /\ versions["input"] = 1
    /\ seen["one"]["input"] = 1
    /\ ~Scheduled("one")
    /\ tasks # <<>>


(***************************************************************************)
(* C35: when a tick has prepared tasks, each task's writes buffer holds    *)
(* the pending writes recorded under that task's id, those loaded with the *)
(* saved checkpoint on resume included, and nothing else: a pending write  *)
(* whose id is no prepared task's is in no buffer.                         *)
(***************************************************************************)
\* this step is a tick that prepares tasks: the one that takes the input
\* or the one that applies a step, unless it stops before preparing
PreparesTasks ==
    /\ (linput # "done" /\ linput' = "done") \/ PutsLoopCheckpoint
    /\ status' \in {"pending", "interrupt_before", "done"}

\* the (channel, value) pairs recorded in pw under tid, as recorded
RecordedUnder(pw, tid) ==
    LET sel == SelectSeq(pw, LAMBDA w : w[1] = tid)
    IN [j \in 1..Len(sel) |-> <<sel[j][2], sel[j][3]>>]

PendingWritesAttached ==
    [][PreparesTasks =>
          \A i \in 1..Len(ltasks') :
              ltasks'[i].writes = RecordedUnder(cpw', ltasks'[i].id)]_vars

\* a second invocation on the thread, without input, has prepared the tasks
\* of the saved step: one has the write loaded with the checkpoint in its
\* buffer, the other has none, and a loaded write of a foreign id is pending
PendingWritesAttachedWitness ==
    /\ runs = 2
    /\ ret = "true"
    /\ Len(ltasks) = 2
    /\ ltasks[1].writes = TaskWrites("a", prog)
    /\ ltasks[2].writes = <<>>
    /\ cpw = saved.pw
    /\ StaleTaskId \in PendingTaskIds(cpw)


(***************************************************************************)
(* C36: the tick that takes a new input marks every trigger version of the *)
(* loaded checkpoint as seen, applies the input's writes and puts the      *)
(* source=input checkpoint with those marks before it prepares tasks, so   *)
(* the tasks it prepares are those of processes triggered by a channel the *)
(* input wrote to, and of no process that was only triggered before.       *)
(***************************************************************************)
\* the channels the input's writes go to
InputChannels == {LoopInputWrites[i][1] : i \in 1..Len(LoopInputWrites)}

InputDiscardsOldTriggers ==
    [][(linput = "some" /\ linput' = "done") =>
          /\ \A n \in LoopProcs : \A c \in LoopTriggers[n] :
                saved'.seen[n][c] >= cvers[c]
          /\ saved'.step = lstep
          /\ \A c \in InputChannels : saved'.vers[c] > cvers[c]
          /\ \A i \in 1..Len(ltasks') :
                LoopTriggers[ltasks'[i].name] \cap InputChannels # {}]_vars

\* a second invocation with input was made when process c was triggered
\* and had not run; its first tick has prepared a and b and not c
InputDiscardsOldTriggersWitness ==
    /\ runs = 2
    /\ linput = "done"
    /\ ret = "true"
    /\ cvers["input"] = 2
    /\ cvers["inbox"] = 1
    /\ cvers["output"] = 0
    /\ saved.seen["c"]["inbox"] = 1
    /\ Len(ltasks) = 2
    /\ ltasks[1].name = "a"
    /\ ltasks[2].name = "b"


(***************************************************************************)
(* C37: when each() sends the wake-up for a task it has run, every write   *)
(* of the task is stored under the task's id; what is stored stays stored, *)
(* and the loop the orchestrator enters for a message loads all of it, so  *)
(* the tick made for a wake-up has the task's writes among its pending     *)
(* writes.                                                                 *)
(***************************************************************************)
\* every write of the task of the message at offset i is among the records
\* pw, under the task's id
WritesStored(i, pw) ==
    LET recs == WriteRecords(execTopic[i].id,
                             TaskWrites(execTopic[i].name, prog))
    IN \A j \in 1..Len(recs) : \E k \in 1..Len(pw) : pw[k] = recs[j]

SomeTaskUnrecorded == \E i \in 1..Len(ltasks) : ~Recorded(ltasks[i].id, cpw)

WaitingTickChangesNothing ==
    [][(linput = "done" /\ status = "pending" /\ SomeTaskUnrecorded /\ Tick)
          => /\ ret' = "false"
             /\ UNCHANGED <<status, saved, channels, cvers, cseen, lstep,
                            ltasks, cpw, stream>>]_vars


(***************************************************************************)
(* C39: within one loop a status other than pending stays as it is, and a  *)
(* tick made with such a status raises RuntimeError and leaves the status, *)
(* the saved checkpoint, the channels and their versions, the step counter *)
(* and the pending writes unchanged.  The statuses a loop stops with are   *)
(* done, interrupt_before, interrupt_after and out_of_steps.               *)
(***************************************************************************)
TerminalStatuses == {"done", "interrupt_before", "interrupt_after",
                     "out_of_steps"}

StoppedLoopCannotTick ==
    [][/\ status \in TerminalStatuses \cup {"pending"}
       /\ (status # "pending" /\ runs' = runs) => status' = status
       /\ (status # "pending" /\ Tick) =>
             /\ ret' = "RuntimeError"
             /\ UNCHANGED <<status, saved, channels, cvers, cseen, lstep,
                            cpw>>]_vars

\* a loop that has stopped with status done was ticked again and the tick
\* raised
StoppedLoopCannotTickWitness ==
    /\ status = "done"
    /\ ret = "RuntimeError"
    /\ saved.step >= 0


(***************************************************************************)
(* C40: get_new_channel_versions(previous, current) returns exactly the    *)
(* entries of current whose version is greater than the version previous   *)
(* has for the channel, the null version standing in for a channel that    *)
(* previous does not have, also when previous is empty; every returned     *)
(* entry has the version current has.                                      *)
(***************************************************************************)
\* the channels of current whose version is newer than in previous
NewerThan(previous, current) ==
    {k \in DOMAIN current :
        current[k] > DictGet(previous, k, NullVersion)}

====
